---- MODULE Spec2Model ----
(***************************************************************************)
(* Rewindo: an append-only journal (timeline.jsonl) of checkpoints of a    *)
(* git working tree, with revert / undo / replay on top of it.             *)
(*                                                                         *)
(* The journal is a sequence of lines; git is modelled by its object       *)
(* store (commits with a tree and a first parent), HEAD, the index, the    *)
(* working tree and the two reference namespaces refs/rewindo/steps and    *)
(* refs/rewindo/checkpoints.                                               *)
(***************************************************************************)
EXTENDS Integers, Sequences, FiniteSets, TLC

(***************************************************************************)
(* Bounds of the model.                                                    *)
(***************************************************************************)
\* Operations (library calls, hook runs, user git commands) per behaviour.
MaxOps == 6
\* Invocations started per behaviour of SpecConc.
MaxConcOps == 4
\* Commands (captures, user git commands, reverts) per behaviour of SpecCli.
MaxCliOps == 5

VARIABLES
    timeline,          \* lines of .claude/data/timeline.jsonl, in file order
    timeline_exists,   \* whether the journal file exists
    prompt_state,      \* whether .claude/data/prompt_state.json exists
    commits,           \* git object store: commit sha i is commits[i]
    head,              \* the commit HEAD (the current branch) points at
    index,             \* the caller's real index, a tree
    wt,                \* working tree: the source file and .gitignore
    refs_steps,        \* refs/rewindo/steps/<id>      -> sha (NoSha: no ref)
    refs_checkpoints,  \* refs/rewindo/checkpoints/<id> -> sha (NoSha: no ref)
    appended,          \* the ids append_entry has returned so far
    outcome,           \* what the last finished library call returned or raised
    nops,              \* operations run so far
    pc,                \* per invocation (process): the step it is at
    local,             \* per invocation (process): its local variables
    cli,               \* the command-line revert in progress or last finished
    inodes,            \* files of .claude/data by inode: the tokens written
    dir,               \* directory of .claude/data: name -> inode (0: no file)
    flock,             \* inode -> the invocation holding its flock (0: none)
    temp_index         \* the snapshot's temporary index (NoIndex: no file)

journalVars == <<timeline, timeline_exists>>
gitVars == <<commits, head, index, wt, refs_steps, refs_checkpoints>>
procVars == <<pc, local>>
fsVars == <<inodes, dir, flock, temp_index>>
vars == <<timeline, timeline_exists, prompt_state, commits, head, index, wt,
          refs_steps, refs_checkpoints, appended, outcome, nops, pc, local, cli,
          inodes, dir, flock, temp_index>>

Actors == {"assistant", "user"}
Labels == {"good"}
\* Ids an entry can carry: every append raises the maximum id by at most one.
StepIds == 1..MaxOps
\* Contents of the source file the model follows; 0 is "no such file".
FileVals == {0, 1, 2}

\* None (Python), an absent key, the empty string, or a ref that does not exist.
NoSha == 0
\* The "actor" key is absent from the stored record.
NoActor == "absent"

(***************************************************************************)
(* The journal: pure helpers.                                              *)
(***************************************************************************)
Max(a, b) == IF a >= b THEN a ELSE b

RECURSIVE MaxId(_)
\* The loop of get_next_entry_id: the maximum of entry.get("id", 0) over the
\* lines that parse, starting from 0; a line that does not parse is skipped.
MaxId(lines) ==
    IF lines = <<>> THEN 0
    ELSE LET l == lines[Len(lines)]
             rest == MaxId(SubSeq(lines, 1, Len(lines) - 1))
         IN IF l.valid THEN Max(rest, l.id) ELSE rest

get_next_entry_id_stuck(lines, exists) ==
    IF ~exists THEN 1 ELSE Max(MaxId(lines), 1)

get_next_entry_id_count(lines, exists) == Len(lines) + 1

\* Rewindo.get_next_entry_id (and its copy in the Stop hook)
get_next_entry_id(lines, exists) ==
    IF ~exists THEN 1 ELSE MaxId(lines) + 1

\* The record append_entry builds and serialises as one JSON line.
NewEntry(id, actor, checkpoint_sha, parent_sha) ==
    [valid |-> TRUE, id |-> id, actor |-> actor,
     checkpoint_sha |-> checkpoint_sha, parent_sha |-> parent_sha,
     labels |-> <<>>]

Ids(lines) == [i \in 1..Len(lines) |-> lines[i].id]

\* Rewindo._normalize_entry: a missing actor reads as "assistant"; a missing
\* parent_sha reads as None. A record stored without a "parent_sha" key is
\* a record without that field.
normalize_entry(entry) ==
    LET e == IF "parent_sha" \in DOMAIN entry THEN entry
             ELSE [k \in DOMAIN entry \cup {"parent_sha"} |->
                      IF k = "parent_sha" THEN NoSha ELSE entry[k]]
    IN IF e.actor = NoActor THEN [e EXCEPT !.actor = "assistant"] ELSE e

\* Positions of the parseable lines whose id is entry_id, in file order.
Matching(lines, entry_id) ==
    {i \in 1..Len(lines) : lines[i].valid /\ lines[i].id = entry_id}

Min(S) == CHOOSE x \in S : \A y \in S : x <= y

\* Rewindo.get_entry: the first parseable line with that id, normalised;
\* HasEntry is "the result is not None".
HasEntry(lines, exists, entry_id) == exists /\ Matching(lines, entry_id) # {}
get_entry(lines, entry_id) == normalize_entry(lines[Min(Matching(lines, entry_id))])

(***************************************************************************)
(* git: trees, status, add -A, commit, reset --hard.                       *)
(***************************************************************************)
\* A tree holds the source file (0: not in the tree), .gitignore (whether it
\* is in the tree) and the journal file (jt: whether it is in the tree).
MkTree(file, gitignore, jt, journal) ==
    [file |-> file, gitignore |-> gitignore, jt |-> jt,
     journal |-> IF jt THEN journal ELSE <<>>]

EmptyTree == MkTree(0, FALSE, FALSE, <<>>)

IsCommit(sha) == sha \in 1..Len(commits)

\* .claude/data/ is ignored once .gitignore lists it (the Stop hook's line).
Ignored(w) == w.gitignore

\* git add -A: the index becomes the working tree, except that an ignored
\* path is staged only if the index already tracks it.
GitAddAll(idx, w, lines, exists) ==
    MkTree(w.file, w.gitignore,
           exists /\ (idx.jt \/ ~Ignored(w)), lines)

\* git reset --hard <tree>, on the source file: a path of the target is
\* written (over an untracked file too); a path only the index tracks is
\* removed; a path neither tracks is left alone.
ResetFile(target, idx, cur) ==
    IF target # 0 THEN target ELSE IF idx # 0 THEN 0 ELSE cur

ResetFlag(target, idx, cur) ==
    IF target THEN TRUE ELSE IF idx THEN FALSE ELSE cur

\* git reset --hard sha: HEAD, the index and every tracked path of the
\* working tree, the journal file included when a tree tracks it.
GitResetHard(sha) ==
    LET t == commits[sha].tree
    IN [head |-> sha,
        index |-> t,
        wt |-> [file |-> ResetFile(t.file, index.file, wt.file),
                gitignore |-> ResetFlag(t.gitignore, index.gitignore, wt.gitignore)],
        timeline_exists |-> ResetFlag(t.jt, index.jt, timeline_exists),
        timeline |-> IF t.jt THEN t.journal
                     ELSE IF index.jt THEN <<>> ELSE timeline]

\* git diff --stat HEAD prints something: a path the index tracks differs
\* between the working tree and HEAD, or a path of HEAD is gone from the index.
DiffHeadFile(idx, hd, cur) == IF idx # 0 THEN cur # hd ELSE hd # 0
DiffHeadFlag(idx, hd, cur) == IF idx THEN cur # hd ELSE hd
DiffHead(idx, t, w, lines, exists) ==
    \/ DiffHeadFile(idx.file, t.file, w.file)
    \/ DiffHeadFlag(idx.gitignore, t.gitignore, w.gitignore)
    \/ IF idx.jt THEN ~(exists /\ t.jt /\ lines = t.journal) ELSE t.jt

\* git diff --cached --stat prints something: the index differs from HEAD.
DiffCached(idx, t) == idx # t

\* outcome: ok is FALSE when the operation raised or returned False / None;
\* val is the id append_entry returned or revert_to was given, else 0.
NoOutcome == [op |-> "none", ok |-> TRUE, val |-> 0]
Returned(op, val) == [op |-> op, ok |-> TRUE, val |-> val]
Raised_returned(op) == [op |-> op, ok |-> TRUE, val |-> 0]
Raised(op) == [op |-> op, ok |-> FALSE, val |-> 0]

(***************************************************************************)
(* Rewindo.append_entry, run to completion with no other writer.           *)
(***************************************************************************)
append_entry(actor, checkpoint_sha, parent_sha) ==
    /\ LET entry_id == get_next_entry_id(timeline, timeline_exists)
       IN /\ timeline' = Append(timeline,
                 NewEntry(entry_id, actor, checkpoint_sha, parent_sha))
          /\ timeline_exists' = TRUE
          /\ appended' = appended \cup {entry_id}
          /\ outcome' = Returned("append_entry", entry_id)
    /\ UNCHANGED <<prompt_state, gitVars>>

(***************************************************************************)
(* What the user does between invocations (the tests' run_git calls and    *)
(* file writes): edit the source file; git add -A and git commit.          *)
(***************************************************************************)
UserEdit(v) ==
    /\ v # wt.file
    /\ wt' = [wt EXCEPT !.file = v]
    /\ outcome' = NoOutcome
    /\ UNCHANGED <<journalVars, prompt_state, commits, head, index,
                   refs_steps, refs_checkpoints, appended>>

UserCommit ==
    /\ LET staged == GitAddAll(index, wt, timeline, timeline_exists)
       IN /\ index' = staged
          /\ IF staged = commits[head].tree
             THEN UNCHANGED <<commits, head>>
             ELSE /\ commits' = Append(commits, [tree |-> staged, parent |-> head])
                  /\ head' = Len(commits) + 1
    /\ outcome' = NoOutcome
    /\ UNCHANGED <<journalVars, prompt_state, wt, refs_steps, refs_checkpoints,
                   appended>>

(***************************************************************************)
(* SnapshotCreator.store_ref: git update-ref refs/rewindo/steps/<id> sha.  *)
(***************************************************************************)
store_ref(step_id, sha) ==
    /\ refs_steps' = IF IsCommit(sha) THEN [refs_steps EXCEPT ![step_id] = sha]
                     ELSE refs_steps
    /\ outcome' = IF IsCommit(sha) THEN Returned("store_ref", 0)
                  ELSE Raised("store_ref")
    /\ UNCHANGED <<journalVars, prompt_state, commits, head, index, wt,
                   refs_checkpoints, appended>>

(***************************************************************************)
(* Rewindo.add_label                                                       *)
(***************************************************************************)
Contains(seq, x) == \E i \in 1..Len(seq) : seq[i] = x

Relabel_always(e, entry_id, label) ==
    IF e.id = entry_id THEN [e EXCEPT !.labels = Append(e.labels, label)] ELSE e

Relabel_normalized(e, entry_id, label) ==
    normalize_entry(IF e.id = entry_id /\ ~Contains(e.labels, label)
                    THEN [e EXCEPT !.labels = Append(e.labels, label)] ELSE e)

\* One line as add_label's loop rewrites it.
Relabel(e, entry_id, label) ==
    IF e.id = entry_id /\ ~Contains(e.labels, label)
    THEN [e EXCEPT !.labels = Append(e.labels, label)] ELSE e

Relabelled_only(lines, entry_id, label) ==
    SelectSeq([i \in 1..Len(lines) |-> Relabel(lines[i], entry_id, label)],
              LAMBDA e : e.id = entry_id)

\* The list add_label writes back: every line, in file order.
Relabelled(lines, entry_id, label) ==
    [i \in 1..Len(lines) |-> Relabel(lines[i], entry_id, label)]

AllValid(lines) == \A i \in 1..Len(lines) : lines[i].valid

add_label(entry_id, label) ==
    /\ IF ~HasEntry(timeline, timeline_exists, entry_id)
       THEN \* return False
            /\ outcome' = Raised("add_label")
            /\ UNCHANGED journalVars
       ELSE IF ~AllValid(timeline)
       THEN \* json.loads raises again inside the except clause
            /\ outcome' = Raised("add_label")
            /\ UNCHANGED journalVars
       ELSE /\ timeline' = Relabelled(timeline, entry_id, label)
            /\ UNCHANGED timeline_exists
            /\ outcome' = Returned("add_label", 0)
    /\ UNCHANGED <<prompt_state, gitVars, appended>>

(***************************************************************************)
(* Rewindo.revert_to                                                       *)
(***************************************************************************)
\* The sha revert_to resets to: the entry's checkpoint_sha when it is set,
\* else refs/rewindo/checkpoints/<id>, else refs/rewindo/steps/<id>.
ResolveCheckpoint_head(entry, entry_id) ==
    IF entry.checkpoint_sha # NoSha THEN entry.checkpoint_sha
    ELSE IF refs_checkpoints[entry_id] # NoSha THEN refs_checkpoints[entry_id]
    ELSE IF refs_steps[entry_id] # NoSha THEN refs_steps[entry_id]
    ELSE head

ResolveCheckpoint(entry, entry_id) ==
    IF entry.checkpoint_sha # NoSha THEN entry.checkpoint_sha
    ELSE IF refs_checkpoints[entry_id] # NoSha THEN refs_checkpoints[entry_id]
    ELSE refs_steps[entry_id]

RestoreTimeline_skipped(backup_exists, backup, after) == after

\* The journal after "if timeline_backup: write_text(timeline_backup)":
\* the copy read before the reset, unless there was no file or it was empty.
RestoreTimeline(backup_exists, backup, after) ==
    IF backup_exists /\ backup # <<>>
    THEN [timeline_exists |-> TRUE, timeline |-> backup]
    ELSE after

RevertTarget_parent(entry, entry_id) ==
    LET sha == ResolveCheckpoint(entry, entry_id)
    IN IF IsCommit(sha) /\ commits[sha].parent # NoSha
       THEN commits[sha].parent ELSE sha

\* The commit revert_to hands to git reset --hard.
RevertTarget(entry, entry_id) == ResolveCheckpoint(entry, entry_id)

revert_to(entry_id) ==
    /\ IF ~HasEntry(timeline, timeline_exists, entry_id)
       THEN /\ outcome' = Raised("revert_to")
            /\ UNCHANGED <<journalVars, commits, head, index, wt>>
       ELSE LET sha == RevertTarget(get_entry(timeline, entry_id), entry_id)
            IN IF ~IsCommit(sha)
               THEN \* no checkpoint found, or git reset fails
                    /\ outcome' = Raised("revert_to")
                    /\ UNCHANGED <<journalVars, commits, head, index, wt>>
               ELSE LET r == GitResetHard(sha)
                        j == RestoreTimeline(timeline_exists, timeline,
                                 [timeline_exists |-> r.timeline_exists,
                                  timeline |-> r.timeline])
                    IN /\ head' = r.head
                       /\ index' = r.index
                       /\ wt' = r.wt
                       /\ timeline' = j.timeline
                       /\ timeline_exists' = j.timeline_exists
                       /\ outcome' = Returned("revert_to", entry_id)
                       /\ UNCHANGED commits
    /\ UNCHANGED <<prompt_state, refs_steps, refs_checkpoints, appended>>

(***************************************************************************)
(* Rewindo.undo                                                            *)
(***************************************************************************)
\* list_entries(limit=1): the last line that parses, if any.
ValidPositions(lines) == {i \in 1..Len(lines) : lines[i].valid}
MaxOf(S) == CHOOSE x \in S : \A y \in S : x >= y

\* The ref undo resolves: refs/rewindo/steps/<id>, else
\* refs/rewindo/checkpoints/<id>.
UndoRef(last_id) ==
    IF refs_steps[last_id] # NoSha THEN refs_steps[last_id]
    ELSE refs_checkpoints[last_id]

FirstParent_self(sha) == sha

\* git rev-parse <ref>^1: the first parent of the commit (NoSha: it has none).
FirstParent(sha) == commits[sha].parent

undo ==
    /\ IF ~timeline_exists \/ ValidPositions(timeline) = {}
       THEN /\ outcome' = Raised("undo")
            /\ UNCHANGED <<journalVars, commits, head, index, wt>>
       ELSE LET last_id == timeline[MaxOf(ValidPositions(timeline))].id
                sha == UndoRef(last_id)
            IN IF ~IsCommit(sha) \/ FirstParent(sha) = NoSha
               THEN /\ outcome' = Raised("undo")
                    /\ UNCHANGED <<journalVars, commits, head, index, wt>>
               ELSE LET r == GitResetHard(FirstParent(sha))
                    IN /\ head' = r.head
                       /\ index' = r.index
                       /\ wt' = r.wt
                       /\ timeline' = r.timeline
                       /\ timeline_exists' = r.timeline_exists
                       /\ outcome' = Returned("undo", 0)
                       /\ UNCHANGED commits
    /\ UNCHANGED <<prompt_state, refs_steps, refs_checkpoints, appended>>

(***************************************************************************)
(* The initial repository and the sequential specification: one            *)
(* invocation at a time, each run to completion.                           *)
(***************************************************************************)
\* The invocations that can overlap in the concurrent specification.
Procs == {1, 2}

\* Local variables of an invocation that is not running.
NoLocal ==
    [entry_id |-> 0, actor |-> NoActor, sha |-> NoSha, parent |-> NoSha,
     label |-> "", lines |-> <<>>, exists |-> FALSE]

\* No command-line revert has run since the last other operation.
CliClean ==
    [state |-> "Clean", target |-> 0, actor |-> NoActor, until |-> 0,
     pending |-> <<>>, applied |-> <<>>, conflict |-> 0,
     confirmed |-> FALSE, reset |-> FALSE, rc |-> 0]

\* No state file, no temporary file, no lock file and no temporary index.
NoIndex == "none"
NoDir == [state |-> 0, tmp |-> 0, lock |-> 0]
InitFs ==
    /\ inodes = <<>>
    /\ dir = NoDir
    /\ flock = <<>>
    /\ temp_index = NoIndex

\* The journal and git operations leave the state manager's files and the
\* snapshot's temporary index alone.
NoStateDir == UNCHANGED fsVars

\* A repository with one commit holding the source file, a clean working
\* tree, no journal and no rewindo references.
InitGit ==
    /\ commits = <<[tree |-> MkTree(1, FALSE, FALSE, <<>>), parent |-> NoSha]>>
    /\ head = 1
    /\ index = MkTree(1, FALSE, FALSE, <<>>)
    /\ wt = [file |-> 1, gitignore |-> FALSE]
    /\ refs_steps = [i \in StepIds |-> NoSha]
    /\ refs_checkpoints = [i \in StepIds |-> NoSha]

Init ==
    /\ timeline = <<>>
    /\ timeline_exists = FALSE
    /\ prompt_state = FALSE
    /\ InitGit
    /\ appended = {}
    /\ outcome = NoOutcome
    /\ nops = 0
    /\ pc = [p \in Procs |-> "idle"]
    /\ local = [p \in Procs |-> NoLocal]
    /\ cli = CliClean
    /\ InitFs

\* One more operation, while the behaviour has operations left.
Tick == nops < MaxOps /\ nops' = nops + 1

\* An operation run from start to end with no other invocation in progress.
Sequential == Tick /\ NoStateDir /\ UNCHANGED <<pc, local, cli>>

\* An id of the journal, or the first id it does not hold.
SomeId == 1..(MaxId(timeline) + 1)

Next ==
    \/ Sequential /\ \E v \in FileVals : UserEdit(v)
    \/ Sequential /\ UserCommit
    \/ Sequential /\ \E a \in Actors, s \in {NoSha, head} :
           append_entry(a, s, IF s = NoSha THEN NoSha ELSE commits[s].parent)
    \/ Sequential /\ \E i \in SomeId, s \in 1..Len(commits) : store_ref(i, s)
    \/ Sequential /\ \E i \in SomeId, l \in Labels : add_label(i, l)
    \/ Sequential /\ \E i \in SomeId : revert_to(i)
    \/ Sequential /\ undo

Spec == Init /\ [][Next]_vars

\* C3: across sequential append_entry, add_label, revert_to and undo calls
\* on a well-formed journal no entry is deleted, renumbered or reordered:
\* every step keeps the ids already in the journal, in order, and adds at
\* most one entry at the end.
C3_EntriesNeverDeleted ==
    [][/\ Len(timeline') >= Len(timeline)
       /\ Len(timeline') <= Len(timeline) + 1
       /\ SubSeq(Ids(timeline'), 1, Len(timeline)) = Ids(timeline)]_vars

\* The tree an entry's checkpoint was recorded for: the commit its
\* checkpoint_sha names, or else the commit its reference names when the two
\* namespaces do not disagree.  EmptyTree with known = FALSE when there is none.
CheckpointOf(entry_id) ==
    LET e == get_entry(timeline, entry_id)
        a == refs_steps[entry_id]
        b == refs_checkpoints[entry_id]
        sha == IF e.checkpoint_sha # NoSha THEN e.checkpoint_sha
               ELSE IF a = NoSha THEN b
               ELSE IF b = NoSha \/ b = a THEN a ELSE NoSha
    IN IF IsCommit(sha) THEN [known |-> TRUE, tree |-> commits[sha].tree]
       ELSE [known |-> FALSE, tree |-> EmptyTree]

RevertedOk ==
    /\ outcome.op = "revert_to" /\ outcome.ok
    /\ HasEntry(timeline, timeline_exists, outcome.val)
    /\ CheckpointOf(outcome.val).known

\* C5 as stated: after revert_to(id) succeeds, every file the checkpoint's
\* tree T tracks has exactly T's content in the working tree, the journal
\* file included when T tracks it.
C5_EveryTrackedFileMatches ==
    RevertedOk =>
        LET t == CheckpointOf(outcome.val).tree
        IN /\ t.file # 0 => wt.file = t.file
           /\ t.gitignore => wt.gitignore
           /\ t.jt => timeline_exists /\ timeline = t.journal

\* C5 amended: after revert_to(id) succeeds, every file the checkpoint's tree
\* T tracks, other than the journal file, has exactly T's content in the
\* working tree, and the index equals T.
C5_TrackedSourceFilesMatch ==
    RevertedOk =>
        LET t == CheckpointOf(outcome.val).tree
        IN /\ t.file # 0 => wt.file = t.file
           /\ t.gitignore => wt.gitignore
           /\ index = t

\* A revert to a checkpoint whose tree tracks both the source file and the
\* journal, from a working tree that held something else.
C5_Witness ==
    /\ RevertedOk
    /\ CheckpointOf(outcome.val).tree.file # 0
    /\ CheckpointOf(outcome.val).tree.jt
    /\ wt.file = CheckpointOf(outcome.val).tree.file
    /\ head = get_entry(timeline, outcome.val).checkpoint_sha
    /\ Len(commits) > head

\* C6: a successful revert_to leaves the journal file exactly as it was
\* immediately before the call, whether or not a tree tracks the journal.
C6_RevertKeepsJournal ==
    [][outcome'.op = "revert_to" /\ outcome'.ok /\ nops' # nops
         => timeline' = timeline /\ timeline_exists' = timeline_exists]_vars

\* A successful revert_to to a checkpoint whose tree tracks an older journal,
\* with an entry newer than the target still in the journal.
C6_Witness ==
    /\ outcome.op = "revert_to" /\ outcome.ok
    /\ commits[head].tree.jt
    /\ commits[head].tree.journal # timeline
    /\ \E i \in 1..Len(timeline) : timeline[i].id > outcome.val

(***************************************************************************)
(* SpecAppend: N successive appends to an empty or absent journal.         *)
(***************************************************************************)
InitAppend ==
    /\ timeline = <<>>
    /\ timeline_exists \in BOOLEAN
    /\ prompt_state = FALSE
    /\ InitGit
    /\ appended = {}
    /\ outcome = NoOutcome
    /\ nops = 0
    /\ pc = [p \in Procs |-> "idle"]
    /\ local = [p \in Procs |-> NoLocal]
    /\ cli = CliClean
    /\ InitFs

NextAppend ==
    Sequential /\ \E a \in Actors, s \in {NoSha, head} :
        append_entry(a, s, NoSha)

SpecAppend == InitAppend /\ [][NextAppend]_vars

\* C1: after N successive append_entry calls on an initially empty or absent
\* journal, the ids returned are 1, 2, ..., N in call order and the journal
\* holds exactly N entries whose ids in file order are 1..N.
C1_SequentialIds ==
    /\ outcome.op = "append_entry" => outcome.ok /\ outcome.val = Len(timeline)
    /\ appended = 1..Len(timeline)
    /\ Len(timeline) = nops
    /\ \A i \in 1..Len(timeline) : timeline[i].valid /\ timeline[i].id = i

\* MaxOps appends have returned, the last of them the id MaxOps.
C1_Witness ==
    /\ outcome.op = "append_entry" /\ outcome.val = MaxOps
    /\ Ids(timeline) = [i \in 1..MaxOps |-> i]

(***************************************************************************)
(* SpecConc: invocations that overlap.  Each is a separate process working *)
(* on the same files with no lock, so another invocation can run between   *)
(* any two of its file or git operations.                                  *)
(***************************************************************************)
\* One more invocation, while the behaviour has invocations left.
ConcTick == nops < MaxConcOps /\ nops' = nops + 1

\* A single-step operation that runs while other invocations are under way.
Meanwhile == ConcTick /\ NoStateDir /\ UNCHANGED <<pc, local, cli>>

Goto(p, label, loc) ==
    /\ pc' = [pc EXCEPT ![p] = label]
    /\ local' = [local EXCEPT ![p] = loc]

\* Rewindo.append_entry: entry_id = self.get_next_entry_id()
append_entry_read(p, actor, checkpoint_sha, parent_sha) ==
    /\ pc[p] = "idle"
    /\ ConcTick
    /\ Goto(p, "append_write",
            [NoLocal EXCEPT
                !.entry_id = get_next_entry_id(timeline, timeline_exists),
                !.actor = actor, !.sha = checkpoint_sha, !.parent = parent_sha])
    /\ UNCHANGED <<journalVars, prompt_state, gitVars, appended, outcome, cli>>

\* Rewindo.append_entry: open(timeline_path, "a"), write the line, return.
append_entry_write(p) ==
    /\ pc[p] = "append_write"
    /\ timeline' = Append(timeline,
           NewEntry(local[p].entry_id, local[p].actor, local[p].sha,
                    local[p].parent))
    /\ timeline_exists' = TRUE
    /\ appended' = appended \cup {local[p].entry_id}
    /\ outcome' = Returned("append_entry", local[p].entry_id)
    /\ Goto(p, "idle", NoLocal)
    /\ UNCHANGED <<prompt_state, gitVars, nops, cli>>

\* hooks/log_prompt.py main: UserPromptSubmit with a non-empty prompt.
log_prompt ==
    /\ prompt_state' = TRUE
    /\ outcome' = Returned("log_prompt", 0)
    /\ UNCHANGED <<journalVars, gitVars, appended>>

\* The record the Stop hook writes: no actor and no parent_sha key.
HookEntry(id, checkpoint_sha) ==
    [valid |-> TRUE, id |-> id, actor |-> NoActor,
     checkpoint_sha |-> checkpoint_sha, labels |-> <<>>]

\* The working tree and index after the hook has made sure .gitignore lists
\* .claude/data/ (and has staged .gitignore when it had to add the line).
HookWt(w) == [w EXCEPT !.gitignore = TRUE]
HookIndex(idx, w) == IF w.gitignore THEN idx ELSE [idx EXCEPT !.gitignore = TRUE]

\* has_changes: git diff --stat HEAD, then git diff --cached --stat.
has_changes(idx, t, w, lines, exists) ==
    DiffHead(idx, t, w, lines, exists) \/ DiffCached(idx, t)

\* hooks/log_stop.py main, up to entry_id = get_next_entry_id(timeline_path).
log_stop_begin(p) ==
    LET w1 == HookWt(wt)
        idx1 == HookIndex(index, wt)
    IN /\ pc[p] = "idle"
       /\ ConcTick
       /\ wt' = w1
       /\ index' = idx1
       /\ IF ~prompt_state
          THEN \* no prompt was submitted
               /\ outcome' = Returned("log_stop", 0)
               /\ UNCHANGED <<prompt_state, pc, local>>
          ELSE IF ~has_changes(idx1, commits[head].tree, w1,
                               timeline, timeline_exists)
          THEN /\ prompt_state' = FALSE
               /\ outcome' = Returned("log_stop", 0)
               /\ UNCHANGED <<pc, local>>
          ELSE /\ Goto(p, "log_stop_checkpoint",
                       [NoLocal EXCEPT !.entry_id =
                            get_next_entry_id(timeline, timeline_exists)])
               /\ UNCHANGED <<prompt_state, outcome>>
       /\ UNCHANGED <<journalVars, commits, head, refs_steps,
                      refs_checkpoints, appended, cli>>

\* hooks/log_stop.py main, from create_git_checkpoint to the end: git add -A,
\* write-tree, commit-tree -p HEAD, update-ref, then the append and the
\* removal of the prompt state.
log_stop_checkpoint(p) ==
    LET entry_id == local[p].entry_id
        staged == GitAddAll(index, wt, timeline, timeline_exists)
        commit_sha == Len(commits) + 1
    IN /\ pc[p] = "log_stop_checkpoint"
       /\ index' = staged
       /\ commits' = Append(commits, [tree |-> staged, parent |-> head])
       /\ refs_checkpoints' = [refs_checkpoints EXCEPT ![entry_id] = commit_sha]
       /\ timeline' = Append(timeline, HookEntry(entry_id, commit_sha))
       /\ timeline_exists' = TRUE
       /\ prompt_state' = FALSE
       /\ outcome' = Returned("log_stop", entry_id)
       /\ Goto(p, "idle", NoLocal)
       /\ UNCHANGED <<head, wt, refs_steps, appended, nops, cli>>

\* Rewindo.add_label: entry = self.get_entry(entry_id)
add_label_get(p, entry_id, label) ==
    /\ pc[p] = "idle"
    /\ ConcTick
    /\ IF ~HasEntry(timeline, timeline_exists, entry_id)
       THEN /\ outcome' = Raised("add_label")
            /\ UNCHANGED <<pc, local>>
       ELSE /\ Goto(p, "add_label_read",
                    [NoLocal EXCEPT !.entry_id = entry_id, !.label = label])
            /\ UNCHANGED outcome
    /\ UNCHANGED <<journalVars, prompt_state, gitVars, appended, cli>>

\* Rewindo.add_label: the loop that reads every line into entries.
add_label_read(p) ==
    /\ pc[p] = "add_label_read"
    /\ IF ~timeline_exists \/ ~AllValid(timeline)
       THEN /\ outcome' = Raised("add_label")
            /\ Goto(p, "idle", NoLocal)
       ELSE /\ Goto(p, "add_label_write",
                    [local[p] EXCEPT !.lines =
                         Relabelled(timeline, local[p].entry_id, local[p].label)])
            /\ UNCHANGED outcome
    /\ UNCHANGED <<journalVars, prompt_state, gitVars, appended, nops, cli>>

\* Rewindo.add_label: open(timeline_path, "w") and write entries back.
add_label_write(p) ==
    /\ pc[p] = "add_label_write"
    /\ timeline' = local[p].lines
    /\ timeline_exists' = TRUE
    /\ outcome' = Returned("add_label", 0)
    /\ Goto(p, "idle", NoLocal)
    /\ UNCHANGED <<prompt_state, gitVars, appended, nops, cli>>

\* Rewindo.revert_to: get_entry and the resolution of checkpoint_sha.
revert_to_resolve(p, entry_id) ==
    /\ pc[p] = "idle"
    /\ ConcTick
    /\ IF \/ ~HasEntry(timeline, timeline_exists, entry_id)
          \/ ~IsCommit(RevertTarget(get_entry(timeline, entry_id), entry_id))
       THEN /\ outcome' = Raised("revert_to")
            /\ UNCHANGED <<pc, local>>
       ELSE /\ Goto(p, "revert_backup",
                    [NoLocal EXCEPT
                        !.entry_id = entry_id,
                        !.sha = RevertTarget(get_entry(timeline, entry_id),
                                             entry_id)])
            /\ UNCHANGED outcome
    /\ UNCHANGED <<journalVars, prompt_state, gitVars, appended, cli>>

\* Rewindo.revert_to: timeline_backup = read_text() if the file exists.
revert_to_backup(p) ==
    /\ pc[p] = "revert_backup"
    /\ Goto(p, "revert_reset",
            [local[p] EXCEPT !.exists = timeline_exists, !.lines = timeline])
    /\ UNCHANGED <<journalVars, prompt_state, gitVars, appended, outcome,
                   nops, cli>>

\* Rewindo.revert_to: git reset --hard checkpoint_sha
revert_to_reset(p) ==
    LET r == GitResetHard(local[p].sha)
    IN /\ pc[p] = "revert_reset"
       /\ head' = r.head
       /\ index' = r.index
       /\ wt' = r.wt
       /\ timeline' = r.timeline
       /\ timeline_exists' = r.timeline_exists
       /\ pc' = [pc EXCEPT ![p] = "revert_restore"]
       /\ UNCHANGED <<prompt_state, commits, refs_steps, refs_checkpoints,
                      appended, outcome, nops, local, cli>>

\* Rewindo.revert_to: if timeline_backup: write_text(timeline_backup)
revert_to_restore(p) ==
    LET j == RestoreTimeline(local[p].exists, local[p].lines,
                 [timeline_exists |-> timeline_exists, timeline |-> timeline])
    IN /\ pc[p] = "revert_restore"
       /\ timeline' = j.timeline
       /\ timeline_exists' = j.timeline_exists
       /\ outcome' = Returned("revert_to", local[p].entry_id)
       /\ Goto(p, "idle", NoLocal)
       /\ UNCHANGED <<prompt_state, gitVars, appended, nops, cli>>

NextConc ==
    \/ Meanwhile /\ \E v \in FileVals : UserEdit(v)
    \/ Meanwhile /\ log_prompt
    \/ NoStateDir /\ \E p \in Procs, a \in Actors, s \in {NoSha, head} :
           append_entry_read(p, a, s, NoSha)
    \/ NoStateDir /\ \E p \in Procs : append_entry_write(p)
    \/ NoStateDir /\ \E p \in Procs : log_stop_begin(p)
    \/ NoStateDir /\ \E p \in Procs : log_stop_checkpoint(p)
    \/ NoStateDir /\ \E p \in Procs, i \in SomeId, l \in Labels : add_label_get(p, i, l)
    \/ NoStateDir /\ \E p \in Procs : add_label_read(p)
    \/ NoStateDir /\ \E p \in Procs : add_label_write(p)
    \/ NoStateDir /\ \E p \in Procs, i \in SomeId : revert_to_resolve(p, i)
    \/ NoStateDir /\ \E p \in Procs : revert_to_backup(p)
    \/ NoStateDir /\ \E p \in Procs : revert_to_reset(p)
    \/ NoStateDir /\ \E p \in Procs : revert_to_restore(p)

SpecConc == Init /\ [][NextConc]_vars

\* C2: in every reachable journal state, overlapping appenders included, no
\* two journal entries carry the same id.
C2_UniqueIds ==
    \A i, j \in 1..Len(timeline) :
        i # j => timeline[i].id # timeline[j].id

\* C4: once append_entry has returned an id, an entry with that id is in the
\* journal in every later state, whatever add_label or revert_to invocation
\* overlaps the append.
C4_AppendedEntryStays ==
    \A id \in appended :
        timeline_exists /\ \E i \in 1..Len(timeline) : timeline[i].id = id

(***************************************************************************)
(* SpecCli: the command-line surface (bin/rewindo), which the sources here *)
(* do not include: the capture commands and "revert <id> [--yes]           *)
(* [--replay <actor> [--to <id>]]".  It is written from the specification  *)
(* of the revert and replay state machine, on top of the library           *)
(* operations above.                                                       *)
(***************************************************************************)
\* One more command, while the behaviour has commands left.
CliTick == nops < MaxCliOps /\ nops' = nops + 1

\* A revert is between its start and its outcome.
CliBusy == cli.state \in {"ConfirmPending", "ReplayApplying"}

\* git status --porcelain prints a path the index does not track and
\* .gitignore does not cover.
Untracked(idx, w, exists) ==
    \/ idx.file = 0 /\ w.file # 0
    \/ ~idx.gitignore /\ w.gitignore
    \/ exists /\ ~idx.jt /\ ~Ignored(w)

\* The working tree differs from HEAD: git status has something to report.
TreeDirty ==
    \/ has_changes(index, commits[head].tree, wt, timeline, timeline_exists)
    \/ Untracked(index, wt, timeline_exists)

\* The commit the next snapshot is a child of: the checkpoint recorded last,
\* or HEAD when nothing was recorded.
LastCheckpoint ==
    IF timeline_exists /\ ValidPositions(timeline) # {}
       /\ IsCommit(timeline[MaxOf(ValidPositions(timeline))].checkpoint_sha)
    THEN timeline[MaxOf(ValidPositions(timeline))].checkpoint_sha
    ELSE head

\* A capture command run after its author left the source file as v: make
\* sure the journal directory is ignored, detect the changes, snapshot the
\* working tree through a temporary index seeded from HEAD, store the step
\* reference and append the entry.  With no change nothing is recorded.
capture(actor, v) ==
    LET w1 == HookWt([wt EXCEPT !.file = v])
        idx1 == HookIndex(index, wt)
        t == commits[head].tree
        entry_id == get_next_entry_id(timeline, timeline_exists)
        tree == GitAddAll(t, w1, timeline, timeline_exists)
        commit_sha == Len(commits) + 1
    IN /\ ~CliBusy
       /\ CliTick
       /\ wt' = w1
       /\ index' = idx1
       /\ cli' = CliClean
       /\ IF ~(has_changes(idx1, t, w1, timeline, timeline_exists)
               \/ Untracked(idx1, w1, timeline_exists))
          THEN \* create_snapshot returns None
               /\ outcome' = Raised("create_snapshot")
               /\ UNCHANGED <<journalVars, commits, refs_steps, appended>>
          ELSE /\ commits' = Append(commits,
                      [tree |-> tree, parent |-> LastCheckpoint])
               /\ refs_steps' = [refs_steps EXCEPT ![entry_id] = commit_sha]
               /\ timeline' = Append(timeline,
                      NewEntry(entry_id, actor, commit_sha, LastCheckpoint))
               /\ timeline_exists' = TRUE
               /\ appended' = appended \cup {entry_id}
               /\ outcome' = Returned("append_entry", entry_id)
       /\ UNCHANGED <<prompt_state, head, refs_checkpoints, pc, local>>

\* The ids a replay selects: later than the target, not later than until
\* when it is given (0: not given), recorded for the actor asked for.
Selected(lines, target, actor, until) ==
    {lines[i].id : i \in
        {k \in 1..Len(lines) :
            /\ lines[k].valid
            /\ lines[k].id > target
            /\ until = 0 \/ lines[k].id <= until
            /\ normalize_entry(lines[k]).actor = actor}}

RECURSIVE Ascending(_)
Ascending(S) ==
    IF S = {} THEN <<>>
    ELSE <<Min(S)>> \o Ascending(S \ {Min(S)})

ReplayPlan_all(lines, target, actor, until) ==
    Ascending(Selected(lines, target, actor, 0))

\* The steps a replay will apply, in the order it applies them.
ReplayPlan(lines, target, actor, until) ==
    Ascending(Selected(lines, target, actor, until))

\* One path of a three-way merge: base and theirs are the step's recorded
\* change, ours is the tree as it stands.
Merge3(base, theirs, ours) ==
    IF base = theirs THEN [clean |-> TRUE, val |-> ours]
    ELSE IF ours = base THEN [clean |-> TRUE, val |-> theirs]
    ELSE IF ours = theirs THEN [clean |-> TRUE, val |-> ours]
    ELSE [clean |-> FALSE, val |-> ours]

\* Applying a step's recorded change-set (its checkpoint against that
\* commit's parent) to the source paths of the current tree.
ApplyStep(step_id) ==
    LET sha == ResolveCheckpoint(get_entry(timeline, step_id), step_id)
        theirs == IF IsCommit(sha) THEN commits[sha].tree ELSE EmptyTree
        base == IF IsCommit(sha) /\ commits[sha].parent # NoSha
                THEN commits[commits[sha].parent].tree ELSE EmptyTree
        f == Merge3(base.file, theirs.file, wt.file)
        g == Merge3(base.gitignore, theirs.gitignore, wt.gitignore)
    IN [clean |-> IsCommit(sha) /\ f.clean /\ g.clean,
        wt |-> [file |-> f.val, gitignore |-> g.val],
        index |-> [index EXCEPT !.file = f.val, !.gitignore = g.val]]

NeedsConfirmation_never(yes) == FALSE

\* Whether the revert has to ask before it resets: the tree is dirty and
\* --yes was not given.
NeedsConfirmation(yes) == TreeDirty /\ ~yes

\* The state of the revert once the reset has run.
AfterReset(c, ok, lines) ==
    IF ~ok THEN [c EXCEPT !.state = "Failed", !.rc = 1]
    ELSE IF c.actor = NoActor
    THEN [c EXCEPT !.state = "Done", !.reset = TRUE, !.rc = 0]
    ELSE [c EXCEPT !.state = "ReplayApplying", !.reset = TRUE,
                   !.pending = ReplayPlan(lines, c.target, c.actor, c.until)]

\* Resetting: the library's revert_to, then on to the replay if one was asked.
Proceed(c) ==
    /\ revert_to(c.target)
    /\ cli' = AfterReset(c, outcome'.ok, timeline')

\* revert <target> [--yes] [--replay <actor> [--to <until>]]
cli_revert(target, yes, actor, until) ==
    LET c == [CliClean EXCEPT !.target = target, !.actor = actor,
                              !.until = until, !.confirmed = yes]
    IN /\ ~CliBusy
       /\ CliTick
       /\ UNCHANGED <<pc, local>>
       /\ IF \/ ~HasEntry(timeline, timeline_exists, target)
             \/ ~IsCommit(RevertTarget(get_entry(timeline, target), target))
          THEN \* EntryNotFound / CheckpointUnresolvable
               /\ cli' = [c EXCEPT !.state = "Failed", !.rc = 1]
               /\ UNCHANGED <<journalVars, prompt_state, gitVars, appended,
                              outcome>>
          ELSE IF NeedsConfirmation(yes)
          THEN /\ cli' = [c EXCEPT !.state = "ConfirmPending"]
               /\ UNCHANGED <<journalVars, prompt_state, gitVars, appended,
                              outcome>>
          ELSE Proceed(c)

\* The answer to "Continue?".
cli_confirm(answer) ==
    /\ cli.state = "ConfirmPending"
    /\ UNCHANGED <<nops, pc, local>>
    /\ IF answer
       THEN Proceed([cli EXCEPT !.confirmed = TRUE])
       ELSE /\ cli' = [cli EXCEPT !.state = "Aborted", !.rc = 0]
            /\ UNCHANGED <<journalVars, prompt_state, gitVars, appended,
                           outcome>>

StepConflict_skipped(c, step_id) ==
    [c EXCEPT !.pending = Tail(c.pending)]

\* The replay after a step that did not apply cleanly.
StepConflict(c, step_id) ==
    [c EXCEPT !.state = "Conflict", !.conflict = step_id,
              !.pending = Tail(c.pending), !.rc = 1]

\* The replay after a step that applied.
StepApplied(c, step_id) ==
    [c EXCEPT !.applied = Append(c.applied, step_id),
              !.pending = Tail(c.pending)]

\* Replay: the next selected step, or the end of the replay.
replay_step ==
    /\ cli.state = "ReplayApplying"
    /\ IF cli.pending = <<>>
       THEN /\ cli' = [cli EXCEPT !.state = "Done", !.rc = 0]
            /\ UNCHANGED <<wt, index>>
       ELSE LET step_id == Head(cli.pending)
                r == ApplyStep(step_id)
            IN IF r.clean
               THEN /\ wt' = r.wt
                    /\ index' = r.index
                    /\ cli' = StepApplied(cli, step_id)
               ELSE /\ cli' = StepConflict(cli, step_id)
                    /\ UNCHANGED <<wt, index>>
    /\ UNCHANGED <<journalVars, prompt_state, commits, head, refs_steps,
                   refs_checkpoints, appended, outcome, nops, pc, local>>

\* A library call or a user command between two command-line reverts.
BetweenReverts ==
    ~CliBusy /\ CliTick /\ NoStateDir /\ cli' = CliClean /\ UNCHANGED <<pc, local>>

\* --to values that cut the replay short: none (0), or an id from the target
\* up to the last but one.
Untils(target) == {0} \cup {i \in target..(MaxId(timeline) - 1) : TRUE}

\* What a capture finds in the source file: a new edit, or on a clean tree
\* possibly no edit at all.
CaptureVals == IF TreeDirty THEN FileVals \ {wt.file} ELSE FileVals

\* --yes matters only when the revert would otherwise ask.
YesFlags == IF TreeDirty THEN BOOLEAN ELSE {FALSE}

NextCli ==
    \/ BetweenReverts /\ UserCommit
    \/ BetweenReverts /\ \E a \in Actors :
           append_entry(a, head, commits[head].parent)
    \/ NoStateDir /\ \E a \in Actors, v \in CaptureVals : capture(a, v)
    \/ NoStateDir /\ \E i \in SomeId, yes \in YesFlags : cli_revert(i, yes, NoActor, 0)
    \/ NoStateDir /\ \E i \in SomeId, yes \in YesFlags, a \in Actors :
           \E u \in Untils(i) : cli_revert(i, yes, a, u)
    \/ NoStateDir /\ \E answer \in BOOLEAN : cli_confirm(answer)
    \/ NoStateDir /\ replay_step

SpecCli == Init /\ [][NextCli]_vars

\* C7: when the working tree differs from HEAD, revert resets only after an
\* explicit confirmation or with the override flag; a declined revert leaves
\* the working tree, the index, HEAD and the journal as they were and ends
\* aborted with exit status 0.
C7_DirtyRevertNeedsConfirmation ==
    [][/\ (cli'.reset /\ cli.state # "ReplayApplying" /\ TreeDirty)
            => cli'.confirmed
       /\ (cli'.state = "Aborted" /\ cli.state # "Aborted")
            => /\ cli.state = "ConfirmPending"
               /\ wt' = wt /\ index' = index /\ head' = head
               /\ timeline' = timeline /\ timeline_exists' = timeline_exists
               /\ cli'.rc = 0 /\ ~cli'.reset
       /\ cli.state = "ConfirmPending" => TreeDirty /\ ~cli.reset]_vars

\* A declined revert: the tree is still dirty and still differs from the
\* checkpoint the revert was asked for.
C7_Witness ==
    /\ cli.state = "Aborted"
    /\ TreeDirty
    /\ CheckpointOf(cli.target).known
    /\ CheckpointOf(cli.target).tree.file # wt.file

\* C8: a replay runs only after the reset succeeded, and the steps it has
\* applied, is stopped at and has still to apply are exactly the entries
\* with id > target, id <= until when until is given, and the actor asked
\* for, in ascending id order; when it ends with nothing applied the tree
\* is the target checkpoint's.
C8_ReplayAppliesSelectedAscending ==
    LET want == {timeline[k].id : k \in
                    {i \in 1..Len(timeline) :
                        /\ timeline[i].id > cli.target
                        /\ cli.until = 0 \/ timeline[i].id <= cli.until
                        /\ cli.actor = IF timeline[i].actor = NoActor
                                       THEN "assistant" ELSE timeline[i].actor}}
        seen == cli.applied
                \o (IF cli.state = "Conflict" THEN <<cli.conflict>> ELSE <<>>)
                \o cli.pending
    IN /\ (cli.state \in {"ReplayApplying", "Done", "Conflict"}
           /\ cli.actor # NoActor)
            => /\ \A i \in 1..(Len(seen) - 1) : seen[i] < seen[i + 1]
               /\ {seen[i] : i \in 1..Len(seen)} = want
       /\ cli.state = "Done" => cli.pending = <<>>
       /\ (cli.applied # <<>> \/ cli.pending # <<>>) => cli.reset
       /\ (cli.state = "Done" /\ cli.applied = <<>>)
            => /\ index = CheckpointOf(cli.target).tree
               /\ index.file # 0 => wt.file = index.file

\* A finished replay that applied two steps in order and left out a later
\* step of the same actor because of --to.
C8_Witness ==
    /\ cli.state = "Done"
    /\ Len(cli.applied) = 2
    /\ cli.until # 0
    /\ \E i \in 1..Len(timeline) :
           /\ timeline[i].id > cli.until
           /\ timeline[i].actor = cli.actor
    /\ wt.file = commits[get_entry(timeline, cli.applied[2]).checkpoint_sha].tree.file
    /\ wt.file # CheckpointOf(cli.target).tree.file

\* C9: when the next selected step does not apply cleanly the replay stops
\* there: the outcome is Conflict naming that step with a failure status,
\* the steps applied before stay applied, the tree is not rolled back, and
\* nothing more is applied by that invocation.
C9_ConflictStopsReplay ==
    [][/\ (/\ cli.state = "ReplayApplying"
           /\ cli.pending # <<>>
           /\ ~ApplyStep(Head(cli.pending)).clean)
            => /\ cli'.state = "Conflict"
               /\ cli'.conflict = Head(cli.pending)
               /\ cli'.applied = cli.applied
               /\ cli'.rc # 0
               /\ wt' = wt /\ index' = index /\ head' = head
       /\ cli.state = "Conflict" => nops' # nops]_vars

\* A replay stopped by a conflict after it had applied an earlier step,
\* whose content the source file still holds.
C9_Witness ==
    /\ cli.state = "Conflict"
    /\ cli.applied # <<>>
    /\ cli.conflict > cli.applied[Len(cli.applied)]
    /\ commits[get_entry(timeline, cli.conflict).checkpoint_sha].parent # NoSha
    /\ wt.file = commits[get_entry(timeline,
                     cli.applied[Len(cli.applied)]).checkpoint_sha].tree.file
    /\ wt.file # CheckpointOf(cli.target).tree.file

MaxEarlier == 2
\* prompt[:500]
PromptLimit == 500

\* Python values of the optional arguments: None, a string (by its length),
\* and the marker of a key the stored record does not have.
PyNone == [type |-> "NoneType", len |-> 0]
PyStr(n) == [type |-> "str", len |-> n]
KeyAbsent == [type |-> "absent", len |-> 0]

\* `if value:` on None or a string.
Truthy(v) == v.type = "str" /\ v.len > 0

Slice_whole(v, n) == v

\* value[:n]
Slice(v, n) == IF v.type = "str" /\ v.len > n THEN PyStr(n) ELSE v

\* entry.get(key): a missing key reads as None.
DictGet(v) == IF v = KeyAbsent THEN PyNone ELSE v

\* The dictionary append_entry builds from its arguments: parent_sha is
\* stored unless it is None; session, prompt, message and diff_path are
\* stored only when truthy, the prompt cut to PromptLimit characters.
BuildEntry(entry_id, a) ==
    [valid |-> TRUE, id |-> entry_id, actor |-> a.actor,
     checkpoint_sha |-> a.checkpoint_sha, files |-> a.files, labels |-> <<>>,
     parent_sha |-> IF a.parent_sha # PyNone THEN a.parent_sha ELSE KeyAbsent,
     session |-> IF Truthy(a.session) THEN a.session ELSE KeyAbsent,
     prompt |-> IF Truthy(a.prompt) THEN Slice(a.prompt, PromptLimit)
                ELSE KeyAbsent,
     message |-> IF Truthy(a.message) THEN a.message ELSE KeyAbsent,
     diff_path |-> IF Truthy(a.diff_path) THEN a.diff_path ELSE KeyAbsent]

\* Rewindo._normalize_entry on the parent_sha key: a missing key becomes None.
normalize_parent_sha(entry) ==
    IF entry.parent_sha = KeyAbsent THEN [entry EXCEPT !.parent_sha = PyNone]
    ELSE entry

\* Argument values: None, the empty string, a short string; for the prompt
\* also strings of exactly and of more than PromptLimit characters.
OptStr == {PyNone, PyStr(0), PyStr(4)}
Prompts == {PyNone, PyStr(0), PyStr(PromptLimit), PyStr(PromptLimit + 1)}
FileLists == {<<>>, <<[path |-> "test.txt", status |-> "M"]>>}
AppendArgs ==
    [actor : Actors, checkpoint_sha : {PyStr(6)}, files : FileLists,
     prompt : Prompts, message : OptStr, parent_sha : {PyNone, PyStr(6)},
     session : OptStr, diff_path : OptStr]

\* What an earlier call appended: a user step with a message.
EarlierArgs ==
    [actor |-> "user", checkpoint_sha |-> PyStr(6), files |-> <<>>,
     prompt |-> PyNone, message |-> PyStr(4), parent_sha |-> PyNone,
     session |-> PyNone, diff_path |-> PyNone]

InitRound ==
    /\ \E n \in 0..MaxEarlier :
           /\ timeline = [i \in 1..n |-> BuildEntry(i, EarlierArgs)]
           /\ timeline_exists = (n > 0)
    /\ prompt_state = FALSE
    /\ InitGit
    /\ appended = {}
    /\ outcome = NoOutcome
    /\ nops = 0
    /\ pc = [p \in Procs |-> "idle"]
    /\ local = [p \in Procs |-> NoLocal]
    /\ cli = CliClean
    /\ InitFs

\* The caller's call of append_entry(**a).
round_append(a) ==
    /\ pc[1] = "idle" /\ appended = {}
    /\ LET entry_id == get_next_entry_id(timeline, timeline_exists)
       IN /\ timeline' = Append(timeline, BuildEntry(entry_id, a))
          /\ timeline_exists' = TRUE
          /\ appended' = appended \cup {entry_id}
          /\ outcome' = Returned("append_entry", entry_id)
          /\ Goto(1, "appended", [args |-> a, entry_id |-> entry_id])
    /\ nops' = nops + 1
    /\ UNCHANGED <<prompt_state, gitVars, cli, fsVars>>

\* The caller's call of get_entry(entry_id) right after.
round_get ==
    /\ pc[1] = "appended"
    /\ outcome' =
           IF HasEntry(timeline, timeline_exists, local[1].entry_id)
           THEN Returned("get_entry",
                         normalize_parent_sha(get_entry(timeline, local[1].entry_id)))
           ELSE Raised("get_entry")
    /\ pc' = [pc EXCEPT ![1] = "got"]
    /\ UNCHANGED <<journalVars, prompt_state, gitVars, appended, nops, local,
                   cli, fsVars>>

NextRound ==
    \/ \E a \in AppendArgs : round_append(a)
    \/ round_get

SpecRound == InitRound /\ [][NextRound]_vars

\* The entry get_entry returned, key by key: entry[key] for the keys every
\* entry has, entry.get(key) for the optional ones.
Got(key) ==
    IF key \in {"actor", "files"} THEN outcome.val[key]
    ELSE DictGet(outcome.val[key])
Passed(key) == local[1].args[key]

\* C11 (as stated): append_entry(...) followed immediately by
\* get_entry(returned id) yields an entry whose actor, checkpoint_sha, files,
\* prompt or message, parent_sha, session and diff_path are identical to the
\* values that were passed in, for every combination of arguments.
C11_RoundTripIdentical ==
    pc[1] = "got" =>
        /\ outcome.ok
        /\ \A key \in {"actor", "checkpoint_sha", "files", "prompt", "message",
                       "parent_sha", "session", "diff_path"} :
               Got(key) = Passed(key)

\* C11 (amended): actor, checkpoint_sha, files and parent_sha come back
\* identical; the prompt comes back as its first PromptLimit characters; and
\* prompt, message, session and diff_path come back as None when None or the
\* empty string was passed.
C11_RoundTripUpToTruncation ==
    pc[1] = "got" =>
        /\ outcome.ok
        /\ outcome.val.id = local[1].entry_id
        /\ \A key \in {"actor", "checkpoint_sha", "files", "parent_sha"} :
               Got(key) = Passed(key)
        /\ \A key \in {"message", "session", "diff_path"} :
               Got(key) = IF Truthy(Passed(key)) THEN Passed(key) ELSE PyNone
        /\ Got("prompt") = IF Truthy(Passed("prompt"))
                           THEN PyStr(IF Passed("prompt").len > PromptLimit
                                      THEN PromptLimit
                                      ELSE Passed("prompt").len)
                           ELSE PyNone

\* A prompt longer than PromptLimit and an empty session were appended after
\* earlier entries, and get_entry has returned.
C11_Witness ==
    /\ pc[1] = "got" /\ outcome.ok
    /\ Len(timeline) > 1
    /\ Passed("prompt").len > PromptLimit
    /\ Passed("session") = PyStr(0)
    /\ Passed("parent_sha") = PyNone

(***************************************************************************)
(* SpecLabel: appends and add_label calls by one caller, who remembers the *)
(* arguments of its last add_label call and the journal it found.          *)
(***************************************************************************)
LabelNames == {"good", "bad"}

\* add_label(entry_id, label) called by process 1; `repeat` says that the
\* caller's previous call was the same add_label call and returned True.
label_call(entry_id, label) ==
    /\ Tick
    /\ add_label(entry_id, label)
    /\ local' = [local EXCEPT ![1] =
                    [entry_id |-> entry_id, label |-> label, before |-> timeline,
                     repeat |-> /\ outcome.op = "add_label" /\ outcome.ok
                                /\ local[1].entry_id = entry_id
                                /\ local[1].label = label]]
    /\ UNCHANGED <<pc, cli, fsVars>>

NextLabel ==
    \/ Sequential /\ append_entry("user", NoSha, NoSha)
    \/ \E i \in SomeId, l \in LabelNames : label_call(i, l)

SpecLabel == Init /\ [][NextLabel]_vars

\* How many times label occurs in a list of labels.
Occurrences(labels, label) ==
    Cardinality({k \in 1..Len(labels) : labels[k] = label})

\* C12: add_label is idempotent: after add_label(id, l) is applied twice, l
\* is exactly once in that entry's labels and the journal after the second
\* call equals the journal after the first; and no entry created by
\* append_entry ever holds a label twice, whatever add_label calls were made.
C12_AddLabelIdempotent ==
    /\ \A i \in 1..Len(timeline), l \in LabelNames :
           Occurrences(timeline[i].labels, l) <= 1
    /\ (outcome.op = "add_label" /\ outcome.ok) =>
           Occurrences(get_entry(timeline, local[1].entry_id).labels,
                       local[1].label) = 1
    /\ (outcome.op = "add_label" /\ local[1].repeat) =>
           outcome.ok /\ timeline = local[1].before

\* The second of two equal add_label calls has returned, on an entry that
\* already carried the other label.
C12_Witness ==
    /\ outcome.op = "add_label" /\ outcome.ok /\ local[1].repeat
    /\ Len(get_entry(timeline, local[1].entry_id).labels) = 2
    /\ Len(timeline) > 1

(***************************************************************************)
(* SpecSnap: SnapshotCreator.create_snapshot between the user's edits and  *)
(* git commands.  The repository has the one source file; the journal      *)
(* directory holds nothing git reports.                                    *)
(***************************************************************************)
\* User commands and create_snapshot calls per behaviour of SpecSnap.
MaxSnapOps == 5

SnapTick == nops < MaxSnapOps /\ nops' = nops + 1

\* git status --porcelain for the source file: X is the index against HEAD,
\* Y the working tree against the index; the detector strips the blank.
StatusX(hd, idx) ==
    IF idx = hd THEN " " ELSE IF hd = 0 THEN "A" ELSE IF idx = 0 THEN "D" ELSE "M"
StatusY(idx, w) ==
    IF idx = 0 \/ w = idx THEN " " ELSE IF w = 0 THEN "D" ELSE "M"
Strip(x, y) == IF x = " " THEN y ELSE IF y = " " THEN x ELSE x \o y

\* WorkingTreeDetector.get_changed_files: the statuses reported for the
\* source file, a tracked change first, then "??" when the index does not
\* hold the file and the working tree does.
get_changed_files(hd, idx, w) ==
    (IF StatusX(hd, idx) = " " /\ StatusY(idx, w) = " " THEN <<>>
     ELSE <<Strip(StatusX(hd, idx), StatusY(idx, w))>>)
    \o (IF idx = 0 /\ w # 0 THEN <<"??">> ELSE <<>>)

\* The git command of the snapshot sequence that the environment makes
\* fail in a call (a full disk, a locked or damaged repository), or an
\* exception raised inside the call; "none": every command behaves.
StageFaults == {"none", "read-tree", "add", "rm", "exception"}
CommitFaults == {"none", "write-tree", "commit-tree", "exception"}

\* One iteration of the staging loop on the index the git commands use:
\* git add for M, A, ?? and R (it fails when neither the index nor the
\* working tree has the path); git rm for D (a failure is ignored; when it
\* succeeds it removes the working file too); nothing for other statuses.
StageOne(st, status) ==
    IF ~st.ok THEN st
    ELSE IF status \in {"M", "A", "??", "R"}
    THEN IF st.fault = "add" \/ (st.w = 0 /\ st.idx = 0)
         THEN [st EXCEPT !.ok = FALSE]
         ELSE [st EXCEPT !.idx = st.w]
    ELSE IF status = "D"
    THEN IF st.fault = "rm" \/ st.idx = 0 \/ (st.w # 0 /\ st.w # st.idx)
         THEN st
         ELSE [st EXCEPT !.idx = 0, !.w = 0]
    ELSE st

RECURSIVE StageAll(_, _)
StageAll(st, changes) ==
    IF changes = <<>> THEN st
    ELSE StageAll(StageOne(st, Head(changes)), Tail(changes))

WithTempIndex_unset == FALSE

\* env["GIT_INDEX_FILE"] = str(temp_index): read-tree, add, rm and
\* write-tree run on the temporary index instead of the repository's.
WithTempIndex == TRUE

\* The temporary index file left behind on disk.
StaleIndex == "stale"

cleanup_temp_index_kept(t) == StaleIndex

\* SnapshotCreator._cleanup_temp_index: the temporary index file is
\* unlinked.
cleanup_temp_index(t) == NoIndex

\* Whether the failing command is run at all for this list of changes.
FaultRuns(fault, changes) ==
    \/ fault \in {"none", "read-tree", "exception"}
    \/ fault = "add" /\ Head(changes) \in {"M", "A", "??", "R"}
    \/ fault = "rm" /\ Head(changes) = "D"

NothingToSnapshot_never(changes) == FALSE

\* `if not changes`
NothingToSnapshot(changes) == changes = <<>>

\* changed_files: not given (auto-detect), or a list for the source file.
ChangedFilesArgs ==
    {[given |-> FALSE, list |-> <<>>]}
    \cup {[given |-> TRUE, list |-> l] :
             l \in {<<>>, <<"M">>, <<"A">>, <<"D">>, <<"??">>}}

\* create_snapshot up to `if not changes: return None`.
snapshot_detect(parent_sha, changed_files) ==
    /\ pc[1] = "idle"
    /\ SnapTick
    /\ LET changes == IF changed_files.given THEN changed_files.list
                      ELSE get_changed_files(commits[head].tree.file,
                                             index.file, wt.file)
           loc == [changes |-> changes, parent |-> parent_sha,
                   given |-> changed_files.given, fault |-> "none"]
       IN IF NothingToSnapshot(changes)
          THEN /\ outcome' = Raised("create_snapshot")
               /\ Goto(1, "idle", loc)
          ELSE /\ outcome' = NoOutcome
               /\ Goto(1, "stage", loc)
    /\ UNCHANGED <<journalVars, prompt_state, gitVars, appended, cli, inodes,
                   dir, flock, temp_index>>

\* _stage_files_to_temp_index: mkstemp, read-tree HEAD (a failure leaves
\* the temporary index empty and is ignored), the staging loop; on a
\* failure of the loop or an exception the temporary index is removed and
\* None returned.
snapshot_stage(fault) ==
    /\ pc[1] = "stage"
    /\ FaultRuns(fault, local[1].changes)
    /\ local' = [local EXCEPT ![1].fault = fault]
    /\ LET seed == IF ~WithTempIndex THEN index
                   ELSE IF fault = "read-tree" THEN EmptyTree
                   ELSE commits[head].tree
           st == StageAll([idx |-> seed.file, w |-> wt.file, ok |-> TRUE,
                           fault |-> fault],
                          local[1].changes)
           staged == [seed EXCEPT !.file = st.idx]
       IN IF fault = "exception"
          THEN /\ temp_index' = cleanup_temp_index(seed)
               /\ pc' = [pc EXCEPT ![1] = "idle"]
               /\ outcome' = Raised("create_snapshot")
               /\ UNCHANGED <<wt, index>>
          ELSE /\ wt' = [wt EXCEPT !.file = st.w]
               /\ index' = IF WithTempIndex THEN index ELSE staged
               /\ IF st.ok
                  THEN /\ temp_index' = staged
                       /\ pc' = [pc EXCEPT ![1] = "commit"]
                       /\ UNCHANGED outcome
                  ELSE /\ temp_index' = cleanup_temp_index(staged)
                       /\ pc' = [pc EXCEPT ![1] = "idle"]
                       /\ outcome' = Raised("create_snapshot")
    /\ UNCHANGED <<journalVars, prompt_state, commits, head, refs_steps,
                   refs_checkpoints, appended, nops, cli, inodes, dir,
                   flock>>

\* write-tree and commit-tree on the temporary index, then its removal;
\* when either fails, or an exception is raised, the removal and None.
snapshot_commit(fault) ==
    /\ pc[1] = "commit"
    /\ local' = [local EXCEPT ![1].fault = fault]
    /\ IF fault = "none"
       THEN /\ commits' = Append(commits, [tree |-> temp_index,
                                           parent |-> local[1].parent])
            /\ outcome' = Returned("create_snapshot", Len(commits) + 1)
       ELSE /\ UNCHANGED commits
            /\ outcome' = Raised("create_snapshot")
    /\ temp_index' = cleanup_temp_index(temp_index)
    /\ pc' = [pc EXCEPT ![1] = "idle"]
    /\ UNCHANGED <<journalVars, prompt_state, head, index, wt, refs_steps,
                   refs_checkpoints, appended, nops, cli, inodes, dir,
                   flock>>

\* git add <file> and git rm --cached <file> by the user.
UserStage ==
    /\ index.file # wt.file
    /\ index' = [index EXCEPT !.file = wt.file]
    /\ outcome' = NoOutcome
    /\ UNCHANGED <<journalVars, prompt_state, commits, head, wt, refs_steps,
                   refs_checkpoints, appended>>

UserRmCached ==
    /\ index.file # 0
    /\ index' = [index EXCEPT !.file = 0]
    /\ outcome' = NoOutcome
    /\ UNCHANGED <<journalVars, prompt_state, commits, head, wt, refs_steps,
                   refs_checkpoints, appended>>

\* The user acts between create_snapshot calls.
BetweenSnapshots ==
    pc[1] = "idle" /\ SnapTick /\ NoStateDir /\ UNCHANGED <<pc, local, cli>>

NextSnap ==
    \/ BetweenSnapshots /\ \E v \in FileVals : UserEdit(v)
    \/ BetweenSnapshots /\ UserStage
    \/ BetweenSnapshots /\ UserRmCached
    \/ BetweenSnapshots /\ UserCommit
    \/ \E parent_sha \in {NoSha, head}, cf \in ChangedFilesArgs :
           snapshot_detect(parent_sha, cf)
    \/ snapshot_stage("none")
    \/ snapshot_commit("none")

SpecSnap == Init /\ [][NextSnap]_vars

\* A step of a create_snapshot call; SnapshotCalled is its first step.
SnapshotStep == pc[1] # "idle" \/ pc'[1] # "idle" \/ outcome'.op = "create_snapshot"
SnapshotCalled == pc[1] = "idle" /\ SnapshotStep

\* C13: create_snapshot leaves the caller's real index unchanged, whether it
\* returns a result or None: every path staged before the call is staged
\* with the same content afterwards and no path is newly staged or unstaged.
C13_SnapshotKeepsIndex ==
    [][SnapshotStep => index' = index]_vars

\* create_snapshot returned a commit holding the working tree's content of
\* the file while the index holds a different, staged content of it.
C13_Witness ==
    /\ outcome.op = "create_snapshot" /\ outcome.ok
    /\ index # commits[head].tree
    /\ index.file # wt.file
    /\ commits[outcome.val].tree.file = wt.file

\* C14: create_snapshot with no detected changes (auto-detected, or an empty
\* changed_files list) returns None and creates neither a commit object nor
\* a temporary index.
C14_NoChangesNoCommit ==
    [][(SnapshotCalled /\ local'[1].changes = <<>>) =>
           /\ outcome' = Raised("create_snapshot")
           /\ pc'[1] = "idle"
           /\ commits' = commits
           /\ temp_index = NoIndex /\ temp_index' = NoIndex]_vars

\* create_snapshot auto-detected no change after earlier snapshots and
\* commits, and returned None.
C14_Witness ==
    /\ outcome = Raised("create_snapshot")
    /\ pc[1] = "idle"
    /\ local[1].changes = <<>> /\ ~local[1].given
    /\ Len(commits) > 2

(***************************************************************************)
(* StateManager: .claude/data/state.json, written through state.tmp.       *)
(* A file is an inode holding the tokens of its text; a name of the        *)
(* directory points at an inode; an open file follows its inode, whatever  *)
(* the names do meanwhile.                                                 *)
(***************************************************************************)
\* save_state / update_last_step calls per behaviour.
MaxSaveOps == 3

SaveTick == nops < MaxSaveOps /\ nops' = nops + 1

\* What the state manager never touches.
restVars == <<timeline, timeline_exists, prompt_state, commits, head, index,
              wt, refs_steps, refs_checkpoints, appended, cli, temp_index>>

Tok(k, v) == [k |-> k, v |-> v]

\* The state load_state returns for a missing or invalid file.
EmptyState == [last_step_sha |-> NoSha, last_step_id |-> 0, updated_at |-> 0]

\* datetime.now().isoformat(), as opposed to 0 for None.
Now == 1

\* json.dump(state, f, indent=2): the text of the object, token by token.
json_dump(state) ==
    <<Tok("{", 0), Tok("last_step_sha", state.last_step_sha),
      Tok("last_step_id", state.last_step_id),
      Tok("updated_at", state.updated_at), Tok("}", 0)>>

\* json.load accepts the text and yields a dict / a list.
IsObjectText(text) ==
    /\ Len(text) >= 2
    /\ text[1].k = "{" /\ text[Len(text)].k = "}"
    /\ \A i \in 2..(Len(text) - 1) : text[i].k \notin {"{", "}", "[", "]"}
IsArrayText(text) == text = <<Tok("[", 0), Tok("]", 0)>>

\* state.get(key) on the dict json.load returned.
Field(text, key) ==
    IF \E i \in 1..Len(text) : text[i].k = key
    THEN text[CHOOSE i \in 1..Len(text) : text[i].k = key].v
    ELSE 0

\* StateManager.load_state: the empty state for a missing file and for text
\* json.load rejects; the three keys of a JSON object; for JSON that is not
\* an object state.get raises AttributeError, which is not caught.
load_state(d, ino) ==
    IF d.state = 0 THEN [raised |-> FALSE, state |-> EmptyState]
    ELSE IF IsObjectText(ino[d.state])
    THEN [raised |-> FALSE,
          state |-> [last_step_sha |-> Field(ino[d.state], "last_step_sha"),
                     last_step_id |-> Field(ino[d.state], "last_step_id"),
                     updated_at |-> Field(ino[d.state], "updated_at")]]
    ELSE IF IsArrayText(ino[d.state])
    THEN [raised |-> TRUE, state |-> EmptyState]
    ELSE [raised |-> FALSE, state |-> EmptyState]

TempName_state == "state"

\* temp_file = self.state_file.with_suffix(".tmp")
TempName == "tmp"

\* save_state(state) is called: the timestamp is stamped.
save_state_call(p, state) ==
    /\ pc[p] = "idle"
    /\ SaveTick
    /\ Goto(p, "save_open", [op |-> "save_state",
                             state |-> [state EXCEPT !.updated_at = Now],
                             fd |-> 0, result |-> FALSE])
    /\ UNCHANGED <<restVars, inodes, dir, flock, outcome>>

\* update_last_step(sha, step_id): load_state, set the two keys, then
\* save_state.  No lock is taken.
update_last_step(p, sha, step_id) ==
    /\ pc[p] = "idle"
    /\ SaveTick
    /\ LET loaded == load_state(dir, inodes)
       IN IF loaded.raised
          THEN /\ outcome' = Raised("update_last_step")
               /\ UNCHANGED <<pc, local>>
          ELSE /\ Goto(p, "save_open",
                       [op |-> "update_last_step",
                        state |-> [last_step_sha |-> sha, last_step_id |-> step_id,
                                   updated_at |-> Now],
                        fd |-> 0, result |-> FALSE])
               /\ UNCHANGED outcome
    /\ UNCHANGED <<restVars, inodes, dir, flock>>

\* open(temp_file, "w"): the file is created, or truncated when it exists.
save_open(p) ==
    /\ pc[p] = "save_open"
    /\ IF dir[TempName] = 0
       THEN /\ inodes' = Append(inodes, <<>>)
            /\ flock' = Append(flock, 0)
            /\ dir' = [dir EXCEPT ![TempName] = Len(inodes) + 1]
            /\ Goto(p, "save_write", [local[p] EXCEPT !.fd = Len(inodes) + 1])
       ELSE /\ inodes' = [inodes EXCEPT ![dir[TempName]] = <<>>]
            /\ Goto(p, "save_write", [local[p] EXCEPT !.fd = dir[TempName]])
            /\ UNCHANGED <<dir, flock>>
    /\ UNCHANGED <<restVars, outcome, nops>>

\* The text written at offset 0 of a file that holds old: the tail of a
\* longer old text stays.
Overwrite(old, text) ==
    IF Len(old) > Len(text) THEN text \o SubSeq(old, Len(text) + 1, Len(old))
    ELSE text

\* json.dump and the close of the file: the buffered text reaches the inode
\* the descriptor is open on.
save_write(p) ==
    /\ pc[p] = "save_write"
    /\ inodes' = [inodes EXCEPT ![local[p].fd] =
                     Overwrite(@, json_dump(local[p].state))]
    /\ pc' = [pc EXCEPT ![p] = "save_replace"]
    /\ UNCHANGED <<restVars, dir, flock, outcome, nops, local>>

\* The except clause: the temporary file is removed when it exists.
CleanUp(d) == [d EXCEPT ![TempName] = 0]

\* temp_file.replace(state_file); with no temporary file left it raises
\* FileNotFoundError and save_state returns False.
save_replace(p) ==
    /\ pc[p] = "save_replace"
    /\ IF dir[TempName] = 0
       THEN /\ outcome' = Raised("save_state")
            /\ Goto(p, "idle", local[p])
            /\ UNCHANGED dir
       ELSE /\ dir' = [[dir EXCEPT !.state = dir[TempName]] EXCEPT ![TempName] =
                          IF TempName = "state" THEN dir[TempName] ELSE 0]
            /\ outcome' = Returned("save_state", p)
            /\ Goto(p, "idle", [local[p] EXCEPT !.result = TRUE])
    /\ UNCHANGED <<restVars, inodes, flock, nops>>

\* An IOError / OSError in open, in the write or in the rename: a failed
\* write may leave any prefix of the text; the except clause cleans up and
\* save_state returns False.
save_io_error(p) ==
    /\ pc[p] \in {"save_open", "save_write", "save_replace"}
    /\ IF pc[p] = "save_write"
       THEN \E n \in 0..Len(json_dump(local[p].state)) :
                inodes' = [inodes EXCEPT ![local[p].fd] =
                              Overwrite(@, SubSeq(json_dump(local[p].state), 1, n))]
       ELSE UNCHANGED inodes
    /\ dir' = CleanUp(dir)
    /\ outcome' = Raised("save_state")
    /\ Goto(p, "idle", local[p])
    /\ UNCHANGED <<restVars, flock, nops>>

\* The process is killed: nothing is cleaned up; a write under way may have
\* left any prefix of the text.
save_killed(p) ==
    /\ pc[p] \in {"save_open", "save_write", "save_replace"}
    /\ IF pc[p] = "save_write"
       THEN \E n \in 0..Len(json_dump(local[p].state)) :
                inodes' = [inodes EXCEPT ![local[p].fd] =
                              Overwrite(@, SubSeq(json_dump(local[p].state), 1, n))]
       ELSE UNCHANGED inodes
    /\ outcome' = NoOutcome
    /\ Goto(p, "idle", local[p])
    /\ UNCHANGED <<restVars, dir, flock, nops>>

\* Arguments of the calls.
ShaArgs == {1, 2}
StepIdArgs == {1}
StateArgs ==
    {EmptyState, [last_step_sha |-> 2, last_step_id |-> 2, updated_at |-> 0]}

(***************************************************************************)
(* SpecSave: one invocation at a time, which may fail or be killed at any  *)
(* point.                                                                  *)
(***************************************************************************)
NextSave ==
    \/ \E st \in StateArgs : save_state_call(1, st)
    \/ \E sha \in ShaArgs, id \in StepIdArgs : update_last_step(1, sha, id)
    \/ save_open(1)
    \/ save_write(1)
    \/ save_replace(1)
    \/ save_io_error(1)
    \/ save_killed(1)

SpecSave == Init /\ [][NextSave]_vars

\* What a reader finds under the name state.json.
StateFile ==
    IF dir.state = 0 THEN [exists |-> FALSE, text |-> <<>>]
    ELSE [exists |-> TRUE, text |-> inodes[dir.state]]

\* The file holds the complete text of some state.
Complete(f) ==
    f.exists => /\ IsObjectText(f.text)
                /\ f.text = json_dump([last_step_sha |-> Field(f.text, "last_step_sha"),
                                       last_step_id |-> Field(f.text, "last_step_id"),
                                       updated_at |-> Field(f.text, "updated_at")])

\* C15: at every instant of a single save_state invocation, also when it is
\* killed before the rename or an I/O error occurs, the real state file is
\* absent, holds its previous complete content or holds the complete new
\* content: every step leaves it as it was or installs the whole new text,
\* so load_state returns the previous, the new or the empty state.
C15_SaveStateAtomic ==
    [][/\ Complete(StateFile')
       /\ \/ StateFile' = StateFile
          \/ StateFile' = [exists |-> TRUE, text |-> json_dump(local[1].state)]
       /\ ~load_state(dir', inodes').raised]_vars

\* A save was killed after its write and before the rename, over a state
\* file an earlier save had installed: the state file still holds the
\* earlier text and the temporary file the newer one.
C15_Witness ==
    /\ pc[1] = "idle" /\ outcome = NoOutcome
    /\ dir.state # 0 /\ dir.tmp # 0
    /\ Complete(StateFile)
    /\ inodes[dir.tmp] = json_dump(local[1].state)
    /\ inodes[dir.tmp] # inodes[dir.state]

(***************************************************************************)
(* SpecSaveConc: two invocations (two hook processes) working on the same  *)
(* data directory; any step of one can run between two steps of the other.*)
(***************************************************************************)
NextSaveConc ==
    \/ \E p \in Procs, st \in StateArgs : save_state_call(p, st)
    \/ \E p \in Procs, sha \in ShaArgs, id \in StepIdArgs :
           update_last_step(p, sha, id)
    \/ \E p \in Procs : save_open(p)
    \/ \E p \in Procs : save_write(p)
    \/ \E p \in Procs : save_replace(p)

SpecSaveConc == Init /\ [][NextSaveConc]_vars

\* The step in which invocation p returns True from save_state.
ReturnsTrue(p) == pc[p] = "save_replace" /\ pc'[p] = "idle" /\ local'[p].result

\* C16: with two save_state / update_last_step invocations running
\* concurrently on the same data directory, no reader ever observes a state
\* file that is truncated or not valid JSON, and each invocation that
\* reports success has its complete state visible at the moment it returns.
C16_ConcurrentSavesNeverTorn ==
    [][/\ Complete(StateFile')
       /\ \A p \in Procs :
              ReturnsTrue(p) =>
                  StateFile' = [exists |-> TRUE,
                                text |-> json_dump(local[p].state)]]_vars

\* Invocation p is between the load and the end of the save of an
\* update_last_step call.
InUpdate(p) == pc[p] # "idle" /\ local[p].op = "update_last_step"

\* C17: every update_last_step invocation holds the exclusive state lock for
\* the whole of its load-merge-save window, so that two concurrent
\* invocations are serialized: no invocation loads or saves between another
\* invocation's load and its save.
C17_UpdatesSerialized ==
    \A p \in Procs :
        InUpdate(p) =>
            /\ \E i \in 1..Len(flock) : flock[i] = p
            /\ \A q \in Procs \ {p} : pc[q] = "idle"

(***************************************************************************)
(* SpecLock: _acquire_lock and _release_lock called by two invocations in  *)
(* any order, each call a sequence of system calls the other invocation    *)
(* can run between.  flock locks an inode for one open file description.   *)
(***************************************************************************)
\* _acquire_lock / _release_lock calls per behaviour.
MaxLockOps == 4

LockTick == nops < MaxLockOps /\ nops' = nops + 1

\* lock_fd: the _lock_fd attribute (0: not set); fd: the descriptor the call
\* under way has opened.
NoLock == [lock_fd |-> 0, fd |-> 0]

InitLock ==
    /\ timeline = <<>>
    /\ timeline_exists = FALSE
    /\ prompt_state = FALSE
    /\ InitGit
    /\ appended = {}
    /\ outcome = NoOutcome
    /\ nops = 0
    /\ pc = [p \in Procs |-> "idle"]
    /\ local = [p \in Procs |-> NoLock]
    /\ cli = CliClean
    /\ InitFs

\* os.open(self.lock_file, os.O_CREAT | os.O_WRONLY)
lock_open(p) ==
    /\ pc[p] = "idle"
    /\ LockTick
    /\ IF dir.lock = 0
       THEN /\ inodes' = Append(inodes, <<>>)
            /\ flock' = Append(flock, 0)
            /\ dir' = [dir EXCEPT !.lock = Len(inodes) + 1]
            /\ Goto(p, "lock_flock", [local[p] EXCEPT !.fd = Len(inodes) + 1])
       ELSE /\ Goto(p, "lock_flock", [local[p] EXCEPT !.fd = dir.lock])
            /\ UNCHANGED <<inodes, flock, dir>>
    /\ UNCHANGED <<restVars, outcome>>

\* fcntl.flock(fd, LOCK_EX | LOCK_NB) succeeds: no open file description
\* holds the lock of the inode.
Unlocked(held, fd) == held[fd] = 0

\* flock, then either self._lock_fd = lock_fd and return True, or
\* os.close(lock_fd) and return False.
lock_flock(p) ==
    /\ pc[p] = "lock_flock"
    /\ IF Unlocked(flock, local[p].fd)
       THEN /\ flock' = [flock EXCEPT ![local[p].fd] = p]
            /\ Goto(p, "idle", [lock_fd |-> local[p].fd, fd |-> 0])
            /\ outcome' = Returned("_acquire_lock", p)
       ELSE /\ Goto(p, "idle", [local[p] EXCEPT !.fd = 0])
            /\ outcome' = Raised("_acquire_lock")
            /\ UNCHANGED flock
    /\ UNCHANGED <<restVars, inodes, dir, nops>>

\* _release_lock up to the clean-up: with a _lock_fd attribute, LOCK_UN,
\* close and delattr; without one, nothing.
release_unlock(p) ==
    /\ pc[p] = "idle"
    /\ LockTick
    /\ IF local[p].lock_fd # 0
       THEN flock' = [flock EXCEPT ![local[p].lock_fd] = 0]
       ELSE UNCHANGED flock
    /\ Goto(p, "release_unlink", NoLock)
    /\ UNCHANGED <<restVars, inodes, dir, outcome>>

\* if self.lock_file.exists(): self.lock_file.unlink()
release_unlink(p) ==
    /\ pc[p] = "release_unlink"
    /\ dir' = [dir EXCEPT !.lock = 0]
    /\ outcome' = Returned("_release_lock", p)
    /\ pc' = [pc EXCEPT ![p] = "idle"]
    /\ UNCHANGED <<restVars, inodes, flock, nops, local>>

NextLock ==
    \/ \E p \in Procs : lock_open(p)
    \/ \E p \in Procs : lock_flock(p)
    \/ \E p \in Procs : release_unlock(p)
    \/ \E p \in Procs : release_unlink(p)

SpecLock == InitLock /\ [][NextLock]_vars

\* _acquire_lock has returned True to p and p has not released since.
Holding(p) == local[p].lock_fd # 0

\* C18: the state lock is mutually exclusive: for any interleaving of
\* _acquire_lock and _release_lock calls by concurrent invocations, at most
\* one invocation at a time holds the lock, also when a release removes the
\* lock file another invocation has open or has just locked, and when
\* _release_lock is called by an invocation that does not hold the lock.
C18_LockMutuallyExclusive ==
    \A p, q \in Procs : (Holding(p) /\ Holding(q)) => p = q

(***************************************************************************)
(* SpecLoad: load_state on a state file that something else has written:   *)
(* a complete text, a truncated one, or JSON that is not an object.        *)
(***************************************************************************)
\* Writes and loads per behaviour.
MaxLoadOps == 3

LoadTick == nops < MaxLoadOps /\ nops' = nops + 1

\* Texts a state file can hold: every prefix of a saved state's text (the
\* empty text and the complete one included) and the JSON array [].
SavedStates ==
    [last_step_sha : {NoSha} \cup ShaArgs, last_step_id : {0} \cup StepIdArgs,
     updated_at : {0, Now}]
FileTexts ==
    {SubSeq(json_dump(st), 1, n) : st \in SavedStates, n \in 0..5}
    \cup {<<Tok("[", 0), Tok("]", 0)>>}

\* state_file.write_text(text)
write_text(text) ==
    /\ LoadTick
    /\ IF dir.state = 0
       THEN /\ inodes' = Append(inodes, text)
            /\ flock' = Append(flock, 0)
            /\ dir' = [dir EXCEPT !.state = Len(inodes) + 1]
       ELSE /\ inodes' = [inodes EXCEPT ![dir.state] = text]
            /\ UNCHANGED <<dir, flock>>
    /\ outcome' = NoOutcome
    /\ UNCHANGED <<restVars, pc, local>>

\* A call of load_state().
load_call ==
    /\ LoadTick
    /\ outcome' = IF load_state(dir, inodes).raised THEN Raised("load_state")
                  ELSE Returned("load_state", load_state(dir, inodes).state)
    /\ UNCHANGED <<restVars, pc, local, inodes, dir, flock>>

NextLoad ==
    \/ \E text \in FileTexts : write_text(text)
    \/ load_call

SpecLoad == Init /\ [][NextLoad]_vars

\* C19: load_state never raises: for a missing state file and for any
\* corrupt content (truncated text, invalid JSON, or valid JSON that is not
\* an object) it returns the state in which last_step_sha, last_step_id and
\* updated_at are all absent.
C19_LoadNeverRaises ==
    outcome.op = "load_state" =>
        /\ outcome.ok
        /\ (~StateFile.exists \/ ~IsObjectText(StateFile.text)) =>
               outcome.val = EmptyState

(***************************************************************************)
(* undo, in the sequential specification Spec.                             *)
(***************************************************************************)
\* The most recent entry: the last line of the journal that parses.
LastEntry == timeline[MaxOf(ValidPositions(timeline))]

\* The entry's checkpoint is one commit: its checkpoint_sha is a commit and
\* every reference kept for its id names that commit.
CheckpointNamed(e) ==
    /\ IsCommit(e.checkpoint_sha)
    /\ refs_steps[e.id] \in {NoSha, e.checkpoint_sha}
    /\ refs_checkpoints[e.id] \in {NoSha, e.checkpoint_sha}
    /\ e.checkpoint_sha \in {refs_steps[e.id], refs_checkpoints[e.id]}

\* The step is a call of undo() that returned True.
UndoReturned == outcome'.op = "undo" /\ outcome'.ok /\ nops' = nops + 1

\* C20: undo() resets the working tree to the first parent of the checkpoint
\* commit of the single most recent journal entry, whatever that entry's
\* actor; the parent is the checkpoint commit's own parent link, not the
\* checkpoint of the entry with id - 1.
C20_UndoResetsToParentOfLast ==
    [][(/\ UndoReturned
        /\ timeline_exists /\ ValidPositions(timeline) # {}
        /\ CheckpointNamed(LastEntry)) =>
           LET parent == commits[LastEntry.checkpoint_sha].parent
           IN /\ parent # NoSha
              /\ head' = parent
              /\ index' = commits[parent].tree
              /\ commits[parent].tree.file # 0 =>
                     wt'.file = commits[parent].tree.file
              /\ (commits[parent].tree.file = 0 /\ index.file # 0) =>
                     wt'.file = 0]_vars

\* undo() has returned after a user step with id 2 or more was the most
\* recent entry: HEAD is the parent of that entry's checkpoint, the working
\* tree was reset from another content, and the entry with id - 1 has a
\* different checkpoint from the commit undo went to.
C20_Witness ==
    /\ outcome = Returned("undo", 0)
    /\ timeline_exists /\ ValidPositions(timeline) # {}
    /\ CheckpointNamed(LastEntry)
    /\ LastEntry.actor = "user" /\ LastEntry.id >= 2
    /\ head = commits[LastEntry.checkpoint_sha].parent
    /\ wt.file = commits[head].tree.file
    /\ wt.file # commits[LastEntry.checkpoint_sha].tree.file
    /\ HasEntry(timeline, timeline_exists, LastEntry.id - 1)
    /\ get_entry(timeline, LastEntry.id - 1).checkpoint_sha # head

\* The step is a call of undo().
UndoCalled == outcome'.op = "undo" /\ nops' = nops + 1

\* The journal file is absent or has no line.
NoJournal == ~timeline_exists \/ timeline = <<>>

\* C21: undo() on an empty or absent journal fails with an error and
\* changes neither the working tree nor the journal (nor HEAD, the index
\* or a reference).
C21_UndoOnEmptyJournalFails ==
    [][(UndoCalled /\ NoJournal) =>
           /\ ~outcome'.ok
           /\ UNCHANGED <<timeline, timeline_exists, wt, head, index,
                          commits, refs_steps, refs_checkpoints>>]_vars

\* undo() has raised with no journal while the working tree held an edit
\* that a reset to HEAD would have discarded.
C21_Witness ==
    /\ outcome = Raised("undo")
    /\ NoJournal
    /\ wt.file # commits[head].tree.file
    /\ Len(commits) >= 2

(***************************************************************************)
(* The journal API on any journal content: id gaps, entries out of id      *)
(* order, two entries with one id, lines that do not parse, and legacy      *)
(* entries stored without "actor" and "parent_sha".                        *)
(***************************************************************************)
\* Lines of the journal file the behaviour starts with.
MaxLines == 3
\* Journal calls per behaviour of SpecJournal.
MaxJournalOps == 2

JournalIds == {1, 2, 4}

\* A line that json.loads rejects (a truncated record: its text still names
\* an id, which no reader may use).
BadLine ==
    [valid |-> FALSE, id |-> 6, actor |-> NoActor, checkpoint_sha |-> NoSha,
     labels |-> <<>>]

\* An entry in the old format: no "actor", no "parent_sha", no "labels".
LegacyEntry(id) ==
    [valid |-> TRUE, id |-> id, actor |-> NoActor, checkpoint_sha |-> NoSha,
     labels |-> <<>>]

JournalLines ==
    {BadLine} \cup {LegacyEntry(i) : i \in JournalIds}
              \cup {NewEntry(i, "user", NoSha, NoSha) : i \in JournalIds}

Journals == UNION {[1..n -> JournalLines] : n \in 0..MaxLines}

\* list_entries: actor=None (no filter) and query=None or "" (no filter).
AnyActor == "any"
NoQuery == <<>>

\* str.lower() on the characters the prompts are written with.
LowerChar(c) == IF c = "A" THEN "a" ELSE IF c = "B" THEN "b" ELSE c
Lower(s) == [i \in 1..Len(s) |-> LowerChar(s[i])]

\* q in s, for strings as sequences of characters.
IsSubstring(q, s) ==
    \E i \in 0..(Len(s) - Len(q)) : SubSeq(s, i + 1, i + Len(q)) = q

\* entry.get("prompt", "") and entry.get("message", "").
GetPrompt(e) == IF "prompt" \in DOMAIN e THEN e.prompt ELSE <<>>
GetMessage(e) == IF "message" \in DOMAIN e THEN e.message ELSE <<>>

\* The query filter of list_entries: the lower-cased query is in the
\* lower-cased prompt or message.
QueryMatches(query, e) ==
    \/ IsSubstring(Lower(query), Lower(GetPrompt(e)))
    \/ IsSubstring(Lower(query), Lower(GetMessage(e)))

\* s[:n]
Take(s, n) == SubSeq(s, 1, IF Len(s) < n THEN Len(s) ELSE n)

\* Characters of the prompt (or message) kept in a summary.
SnippetLimit == 80

\* The summary list_entries returns for an entry.
Summary(e) ==
    [id |-> e.id, actor |-> e.actor,
     prompt_snippet |-> Take(IF "prompt" \in DOMAIN e THEN GetPrompt(e)
                             ELSE GetMessage(e), SnippetLimit),
     labels |-> e.labels]

Counts_always(query, actor, e) == TRUE

\* Whether list_entries appends the (normalised) entry: it passes the query
\* filter and the actor filter, each applied only when given.
Counts(query, actor, e) ==
    /\ query # NoQuery => QueryMatches(query, e)
    /\ actor # AnyActor => e.actor = actor

RECURSIVE ListScan(_, _, _, _, _, _)
\* The loop of list_entries from line k down to the first line, with the
\* summaries collected so far.
ListScan(lines, k, entries, limit, query, actor) ==
    IF k = 0 \/ Len(entries) >= limit THEN entries
    ELSE IF ~lines[k].valid
         THEN ListScan(lines, k - 1, entries, limit, query, actor)
    ELSE LET entry == normalize_entry(lines[k])
         IN IF Counts(query, actor, entry)
            THEN ListScan(lines, k - 1, Append(entries, Summary(entry)),
                          limit, query, actor)
            ELSE ListScan(lines, k - 1, entries, limit, query, actor)

\* Rewindo.list_entries
list_entries(lines, exists, limit, query, actor) ==
    IF ~exists THEN <<>>
    ELSE ListScan(lines, Len(lines), <<>>, limit, query, actor)

JournalTick == nops < MaxJournalOps /\ nops' = nops + 1

\* What get_entry returns for an id the journal does not hold.
NotFound == LegacyEntry(0)

\* A call of a reader leaves the journal and the repository alone; what it
\* returned is kept in the caller's local variables.
ReaderCall(op, arg, result) ==
    /\ JournalTick
    /\ outcome' = Returned(op, 0)
    /\ local' = [local EXCEPT ![1] =
                    [op |-> op, arg |-> arg, before |-> timeline,
                     result |-> result]]
    /\ UNCHANGED <<journalVars, prompt_state, gitVars, appended, pc, cli,
                   fsVars>>

get_entry_call(entry_id) ==
    ReaderCall("get_entry", entry_id,
               IF HasEntry(timeline, timeline_exists, entry_id)
               THEN get_entry(timeline, entry_id) ELSE NotFound)

list_entries_call(limit, actor) ==
    ReaderCall("list_entries", <<limit, actor>>,
               list_entries(timeline, timeline_exists, limit, NoQuery, actor))

next_id_call ==
    ReaderCall("get_next_entry_id", 0,
               get_next_entry_id(timeline, timeline_exists))

\* A call of append_entry or add_label, with its arguments and the journal
\* it found kept in the caller's local variables.
WriterCall(op, arg) ==
    /\ JournalTick
    /\ local' = [local EXCEPT ![1] =
                    [op |-> op, arg |-> arg, before |-> timeline,
                     result |-> NotFound]]
    /\ UNCHANGED <<pc, cli, fsVars>>

\* hooks/log_stop.py main, run from start to end with no other invocation
\* in progress.
log_stop ==
    LET w1 == HookWt(wt)
        idx1 == HookIndex(index, wt)
    IN /\ wt' = w1
       /\ IF ~prompt_state
          THEN /\ index' = idx1
               /\ outcome' = Returned("log_stop", 0)
               /\ UNCHANGED <<journalVars, prompt_state, commits,
                              refs_checkpoints>>
          ELSE IF ~has_changes(idx1, commits[head].tree, w1,
                               timeline, timeline_exists)
          THEN /\ index' = idx1
               /\ prompt_state' = FALSE
               /\ outcome' = Returned("log_stop", 0)
               /\ UNCHANGED <<journalVars, commits, refs_checkpoints>>
          ELSE LET entry_id == get_next_entry_id(timeline, timeline_exists)
                   staged == GitAddAll(idx1, w1, timeline, timeline_exists)
                   commit_sha == Len(commits) + 1
               IN /\ index' = staged
                  /\ commits' = Append(commits,
                                       [tree |-> staged, parent |-> head])
                  /\ refs_checkpoints' =
                         [refs_checkpoints EXCEPT ![entry_id] = commit_sha]
                  /\ timeline' = Append(timeline,
                                        HookEntry(entry_id, commit_sha))
                  /\ timeline_exists' = TRUE
                  /\ prompt_state' = FALSE
                  /\ outcome' = Returned("log_stop", entry_id)
       /\ UNCHANGED <<head, refs_steps, appended>>

\* Any journal, in a repository with one commit; a prompt may have been
\* submitted and the source file may have been edited since the commit.
InitJournal ==
    /\ timeline \in Journals
    /\ timeline_exists \in BOOLEAN
    /\ ~timeline_exists => timeline = <<>>
    /\ prompt_state \in BOOLEAN
    /\ commits = <<[tree |-> MkTree(1, FALSE, FALSE, <<>>), parent |-> NoSha]>>
    /\ head = 1
    /\ index = MkTree(1, FALSE, FALSE, <<>>)
    /\ wt \in {[file |-> v, gitignore |-> FALSE] : v \in {1, 2}}
    /\ refs_steps = [i \in StepIds |-> NoSha]
    /\ refs_checkpoints = [i \in StepIds |-> NoSha]
    /\ appended = {}
    /\ outcome = NoOutcome
    /\ nops = 0
    /\ pc = [p \in Procs |-> "idle"]
    /\ local = [p \in Procs |-> NoLocal]
    /\ cli = CliClean
    /\ InitFs

NextJournal ==
    \/ \E i \in SomeId : get_entry_call(i)
    \/ \E n \in {1, MaxLines}, a \in {AnyActor, "assistant"} :
           list_entries_call(n, a)
    \/ next_id_call
    \/ WriterCall("append_entry", 0) /\ append_entry("user", NoSha, NoSha)
    \/ WriterCall("log_stop", 0) /\ log_stop
    \/ \E i \in SomeId, l \in Labels :
           WriterCall("add_label", <<i, l>>) /\ add_label(i, l)

SpecJournal == InitJournal /\ [][NextJournal]_vars

\* The journal with the lines that do not parse taken out.
Valids(lines) == SelectSeq(lines, LAMBDA l : l.valid)

\* The last call was op; Before is the journal it found and Arg, Result
\* are its arguments and what it returned.
Called(op) == outcome.op = op /\ nops > 0
Before == local[1].before
Arg == local[1].arg
Result == local[1].result

\* get_entry, list_entries, get_next_entry_id and append_entry return and
\* write what they would on the journal without its unparseable lines.
ScansSkipBadLines ==
    /\ Called("get_entry") =>
           Result = IF HasEntry(Valids(Before), TRUE, Arg)
                    THEN get_entry(Valids(Before), Arg) ELSE NotFound
    /\ Called("list_entries") =>
           Result = list_entries(Valids(Before), timeline_exists,
                                 Arg[1], NoQuery, Arg[2])
    /\ Called("get_next_entry_id") =>
           Result = get_next_entry_id(Valids(Before), timeline_exists)
    /\ Called("append_entry") =>
           /\ outcome.ok
           /\ outcome.val = get_next_entry_id(Valids(Before), TRUE)
           /\ Valids(timeline) =
                  Append(Valids(Before),
                         NewEntry(outcome.val, "user", NoSha, NoSha))

\* C22: a journal line that is not parseable JSON is skipped without
\* raising by every operation that scans the journal (get_entry,
\* list_entries, get_next_entry_id / append_entry, and add_label), and the
\* remaining valid entries are processed exactly as if the bad line were
\* absent.
C22_BadLinesSkipped ==
    /\ ScansSkipBadLines
    /\ (Called("add_label") /\ HasEntry(Before, TRUE, Arg[1])) =>
           /\ outcome.ok
           /\ Valids(timeline) = Relabelled(Valids(Before), Arg[1], Arg[2])

(***************************************************************************)
(* Rewindo.doctor                                                          *)
(***************************************************************************)
\* Commands per behaviour of SpecDoctor.
MaxDoctorOps == 3
DoctorTick == nops < MaxDoctorOps /\ nops' = nops + 1

\* The ids the references of SpecDoctor are made for: one the journals can
\* hold and one they cannot.
RefIds == {1, 3}

\* "Invalid JSON on line i": the loop over the lines breaks at the first
\* line json.loads rejects.
InvalidLines(lines, exists) ==
    LET bad == {i \in 1..Len(lines) : ~lines[i].valid}
    IN IF exists /\ bad # {} THEN {Min(bad)} ELSE {}

\* The references doctor collects from git show-ref: the lines that
\* contain REFS_PREFIX, "refs/rewindo/checkpoints".
ShownRefs == {i \in StepIds : refs_checkpoints[i] # NoSha}

\* The ids doctor collects from the journal: json.loads(line)["id"] of
\* every line that parses.
EntryIds(lines, exists) ==
    IF exists THEN {lines[i].id : i \in ValidPositions(lines)} ELSE {}

\* has_checkpoint_refs: "refs/rewindo" occurs in the output of show-ref.
HasCheckpointRefs ==
    \E i \in StepIds : refs_steps[i] # NoSha \/ refs_checkpoints[i] # NoSha

\* Rewindo.doctor in a git repository whose data directory exists: the
\* line numbers reported as invalid JSON, whether the journal is reported
\* missing, and the ids reported as orphaned (none: no such issue).
doctor(lines, exists) ==
    [invalid |-> InvalidLines(lines, exists),
     missing |-> ~exists /\ HasCheckpointRefs,
     orphaned |-> ShownRefs \ EntryIds(lines, exists)]

doctor_call ==
    /\ DoctorTick
    /\ outcome' = Returned("doctor", 0)
    /\ local' = [local EXCEPT ![1] =
                    [op |-> "doctor", arg |-> 0, before |-> timeline,
                     result |-> doctor(timeline, timeline_exists)]]
    /\ UNCHANGED <<journalVars, prompt_state, gitVars, appended, pc, cli,
                   fsVars>>

\* git update-ref refs/rewindo/checkpoints/<id> HEAD, run by the user.
update_legacy_ref(id) ==
    /\ DoctorTick
    /\ refs_checkpoints' = [refs_checkpoints EXCEPT ![id] = head]
    /\ outcome' = NoOutcome
    /\ UNCHANGED <<journalVars, prompt_state, commits, head, index, wt,
                   refs_steps, appended, pc, local, cli, fsVars>>

NextDoctor ==
    \/ doctor_call
    \/ \E i \in RefIds : update_legacy_ref(i)
    \/ \E i \in RefIds : DoctorTick /\ store_ref(i, head)
                         /\ UNCHANGED <<pc, local, cli, fsVars>>

SpecDoctor == InitJournal /\ [][NextDoctor]_vars

\* C23: doctor() checks every line of the journal and reports, with its
\* 1-based line number, each line that is not parseable JSON; valid lines
\* before and after an invalid line are still used (their ids still count
\* as journal ids in the reference cross-check).
C23_DoctorReportsEachInvalidLine ==
    Called("doctor") =>
        /\ Result.invalid = {i \in 1..Len(timeline) : ~timeline[i].valid}
        /\ \A i \in 1..Len(timeline) :
               timeline[i].valid => timeline[i].id \notin Result.orphaned

\* C24: doctor() reports as orphaned exactly the ids that have a checkpoint
\* reference in the reference namespace (legacy
\* refs/rewindo/checkpoints/<id> or current refs/rewindo/steps/<id>) but no
\* journal entry with that id; when every reference has a matching entry
\* it reports no orphan issue.
C24_DoctorOrphansExact ==
    Called("doctor") =>
        Result.orphaned =
            {i \in StepIds :
                /\ refs_steps[i] # NoSha \/ refs_checkpoints[i] # NoSha
                /\ ~HasEntry(timeline, timeline_exists, i)}

(***************************************************************************)
(* list_entries with its limit, query and actor arguments, on journals     *)
(* built by appends (the id of a line is its position) of user and legacy  *)
(* assistant entries with a prompt or a message, and unparseable lines.    *)
(***************************************************************************)
ListTexts ==
    {[prompt |-> <<"A", "b">>], [prompt |-> <<"b">>], [message |-> <<"a">>]}

\* The stored records with a text: the model's entry plus "prompt" or
\* "message".
WithText(e, t) == [k \in DOMAIN e \cup DOMAIN t |->
                      IF k \in DOMAIN t THEN t[k] ELSE e[k]]

ListLines(i) ==
    {BadLine} \cup
    {WithText(e, t) : e \in {LegacyEntry(i), NewEntry(i, "user", NoSha, NoSha)},
                      t \in ListTexts}

ListJournals ==
    UNION {{j \in [1..n -> UNION {ListLines(i) : i \in 1..n}] :
               \A i \in 1..n : j[i] \in ListLines(i)} : n \in 0..MaxLines}

Limits == 0..MaxLines
Queries == {NoQuery, <<"a">>, <<"B">>}
ActorFilters == {AnyActor, "assistant", "user"}

InitList ==
    /\ timeline \in ListJournals
    /\ timeline_exists = TRUE
    /\ prompt_state = FALSE
    /\ InitGit
    /\ appended = {}
    /\ outcome = NoOutcome
    /\ nops = 0
    /\ pc = [p \in Procs |-> "idle"]
    /\ local = [p \in Procs |-> NoLocal]
    /\ cli = CliClean
    /\ InitFs

list_call(limit, query, actor) ==
    ReaderCall("list_entries", <<limit, query, actor>>,
               list_entries(timeline, timeline_exists, limit, query, actor))

NextList ==
    \E n \in Limits, q \in Queries, a \in ActorFilters : list_call(n, q, a)

SpecList == InitList /\ [][NextList]_vars

\* The entry as read (its actor defaulted to assistant) passes the filters
\* of the call.
Wanted(e, query, actor) ==
    /\ e.valid
    /\ query # NoQuery => QueryMatches(query, e)
    /\ actor # AnyActor => normalize_entry(e).actor = actor

Reverse(s) == [i \in 1..Len(s) |-> s[Len(s) + 1 - i]]

\* The ids of the wanted entries, newest first.
WantedIds(lines, query, actor) ==
    LET w == SelectSeq(Reverse(lines), LAMBDA e : Wanted(e, query, actor))
    IN [i \in 1..Len(w) |-> w[i].id]

\* C25: list_entries(limit, query, actor) returns at most limit summaries,
\* ordered newest-first (the reverse of journal order, hence descending id
\* for a journal built by appends); when a query or actor filter is given
\* the limit counts only matching entries, so the result is the limit
\* newest entries that match.
C25_ListNewestFirstWithinLimit ==
    Called("list_entries") =>
        /\ Len(Result) <= Arg[1]
        /\ \A i, j \in 1..Len(Result) : i < j => Result[i].id > Result[j].id
        /\ [i \in 1..Len(Result) |-> Result[i].id] =
               Take(WantedIds(timeline, Arg[2], Arg[3]), Arg[1])
        /\ \A i \in 1..Len(Result) :
               Result[i] = Summary(normalize_entry(timeline[Result[i].id]))

\* list_entries(1, "B", "assistant") has returned the legacy entry 1 alone
\* from a journal of three entries: the newest entry fails the actor
\* filter, the second the query, and two more entries would pass with no
\* filter.
C25_Witness ==
    /\ Called("list_entries")
    /\ Arg = <<1, <<"B">>, "assistant">>
    /\ Len(timeline) = 3 /\ AllValid(timeline)
    /\ Len(Result) = 1 /\ Result[1].id = 1 /\ Result[1].actor = "assistant"
    /\ timeline[3].actor = "user"
    /\ ~QueryMatches(Arg[2], timeline[2])

(***************************************************************************)
(* Rewindo.get_prompt: the side file prompts/00001.txt of entry 1 and the  *)
(* inline "prompt" of the journal entries. Texts are sequences of           *)
(* characters; max_chars and offset are natural numbers.                   *)
(***************************************************************************)
\* Largest max_chars and offset passed to get_prompt in SpecPrompt.
MaxChars == 3

\* The directory entry of prompts/00001.txt (0: no such file), next to the
\* state manager's files.
DirWithPrompt(ino) == [state |-> 0, tmp |-> 0, lock |-> 0, prompt_1 |-> ino]

SideTexts == {<<>>, <<"a", "b", "c", "d">>}

PromptJournals ==
    LET lines == {BadLine,
                  WithText(NewEntry(1, "user", NoSha, NoSha),
                           [prompt |-> <<"x", "y", "z">>]),
                  WithText(LegacyEntry(1), [message |-> <<"m">>]),
                  WithText(LegacyEntry(2), [prompt |-> <<"q">>])}
    IN UNION {[1..n -> lines] : n \in 0..2}

InitPrompt ==
    /\ timeline \in PromptJournals
    /\ timeline_exists \in BOOLEAN
    /\ ~timeline_exists => timeline = <<>>
    /\ prompt_state = FALSE
    /\ InitGit
    /\ appended = {}
    /\ outcome = NoOutcome
    /\ nops = 0
    /\ pc = [p \in Procs |-> "idle"]
    /\ local = [p \in Procs |-> NoLocal]
    /\ cli = CliClean
    /\ \/ inodes = <<>> /\ dir = DirWithPrompt(0)
       \/ inodes \in {<<t>> : t \in SideTexts} /\ dir = DirWithPrompt(1)
    /\ flock = <<>>
    /\ temp_index = NoIndex

\* prompt_path.exists() and the text open(prompt_path).read() returns.
SideFileExists(entry_id) == entry_id = 1 /\ dir.prompt_1 # 0
SideFile == inodes[dir.prompt_1]

SliceEnd_max(offset, max_chars) == max_chars

\* end = offset + max_chars
SliceEnd(offset, max_chars) == offset + max_chars

\* s[start:end] for 0 <= start and 0 <= end.
PySlice(s, start, end) ==
    SubSeq(s, start + 1, IF end < Len(s) THEN end ELSE Len(s))

NoPrompt == [found |-> FALSE, text |-> <<>>]

\* Rewindo.get_prompt; found = FALSE is the return value None.
get_prompt(entry_id, max_chars, offset) ==
    IF ~SideFileExists(entry_id)
    THEN IF /\ HasEntry(timeline, timeline_exists, entry_id)
            /\ "prompt" \in DOMAIN get_entry(timeline, entry_id)
         THEN [found |-> TRUE,
               text |-> PySlice(get_entry(timeline, entry_id).prompt, offset,
                                SliceEnd(offset, max_chars))]
         ELSE NoPrompt
    ELSE [found |-> TRUE,
          text |-> PySlice(SideFile, offset, SliceEnd(offset, max_chars))]

get_prompt_call(entry_id, max_chars, offset) ==
    /\ JournalTick
    /\ outcome' = Returned("get_prompt", 0)
    /\ local' = [local EXCEPT ![1] =
                    [op |-> "get_prompt",
                     arg |-> <<entry_id, max_chars, offset>>,
                     before |-> timeline,
                     result |-> get_prompt(entry_id, max_chars, offset)]]
    /\ UNCHANGED <<journalVars, prompt_state, gitVars, appended, pc, cli,
                   fsVars>>

NextPrompt ==
    \E i \in {1, 2}, n \in 0..MaxChars, o \in 0..(MaxChars + 2) :
        get_prompt_call(i, n, o)

SpecPrompt == InitPrompt /\ [][NextPrompt]_vars

\* The first journal entry with that id carries an inline prompt.
InlinePrompt(entry_id) ==
    /\ timeline_exists
    /\ \E i \in 1..Len(timeline) :
           /\ timeline[i].valid /\ timeline[i].id = entry_id
           /\ "prompt" \in DOMAIN timeline[i]
           /\ \A j \in 1..(i - 1) :
                  ~(timeline[j].valid /\ timeline[j].id = entry_id)

\* The full prompt text of the entry: the side file, else the inline copy.
FullPrompt(entry_id) ==
    IF entry_id = 1 /\ dir.prompt_1 # 0 THEN inodes[dir.prompt_1]
    ELSE (CHOOSE e \in {timeline[i] : i \in 1..Len(timeline)} :
              e.valid /\ e.id = entry_id /\ "prompt" \in DOMAIN e).prompt

\* C26: get_prompt(id, max_chars, offset) returns exactly the characters
\* at positions [offset, offset + max_chars) of the full prompt text read
\* from the entry's side file, or of the inline journal copy when the side
\* file is missing; the result never exceeds max_chars characters, and it
\* is None when neither a side file nor an inline prompt exists.
C26_GetPromptWindow ==
    Called("get_prompt") =>
        LET id == Arg[1]
            max_chars == Arg[2]
            offset == Arg[3]
            exists == (id = 1 /\ dir.prompt_1 # 0) \/ InlinePrompt(id)
        IN /\ Result.found = exists
           /\ Len(Result.text) <= max_chars
           /\ exists =>
                  LET full == FullPrompt(id)
                      window == {k \in 1..Len(full) :
                                    offset <= k - 1 /\ k - 1 < offset + max_chars}
                  IN /\ Len(Result.text) = Cardinality(window)
                     /\ \A k \in window : Result.text[k - offset] = full[k]

\* get_prompt(1, 2, 1) has returned "bc" from the side file "abcd" while
\* the journal holds another inline prompt for entry 1.
C26_Witness ==
    /\ Called("get_prompt")
    /\ Arg = <<1, 2, 1>>
    /\ dir.prompt_1 # 0
    /\ InlinePrompt(1)
    /\ Result = [found |-> TRUE, text |-> <<"b", "c">>]

(***************************************************************************)
(* Rewindo.__init__ on a directory that may or may not be a git            *)
(* repository. Here `dir` lists the directories under the root: .git,      *)
(* .claude/data, .claude/data/prompts and .claude/data/diffs.              *)
(***************************************************************************)
\* Commands per behaviour of SpecInit.
MaxInitOps == 3
InitTick == nops < MaxInitOps /\ nops' = nops + 1

RootDirs ==
    {d \in [git : BOOLEAN, data : BOOLEAN, prompts : BOOLEAN, diffs : BOOLEAN] :
        (d.prompts \/ d.diffs) => d.data}

\* Rewindo._is_git_repo: .git exists and is a directory.
is_git_repo(d) == d.git

\* data_dir.mkdir(parents=True, exist_ok=True) and the mkdir(exist_ok=True)
\* of the prompts and diffs directories.
MakeDataDirs(d) == [d EXCEPT !.data = TRUE, !.prompts = TRUE, !.diffs = TRUE]

\* Rewindo.__init__: the directories are made first, then the repository
\* is verified.
construct ==
    /\ InitTick
    /\ dir' = MakeDataDirs(dir)
    /\ outcome' = IF is_git_repo(MakeDataDirs(dir)) THEN Returned("__init__", 0)
                  ELSE Raised("__init__")
    /\ local' = [local EXCEPT ![1] =
                    [op |-> "__init__", arg |-> 0, before |-> dir,
                     result |-> 0]]
    /\ UNCHANGED <<journalVars, prompt_state, gitVars, appended, pc, cli,
                   inodes, flock, temp_index>>

\* The user's commands around the construction: git init, rm -r .claude,
\* and an edit of the source file.
user_command ==
    /\ InitTick
    /\ outcome' = NoOutcome
    /\ \/ /\ dir' = [dir EXCEPT !.git = TRUE]
          /\ UNCHANGED wt
       \/ /\ dir' = [dir EXCEPT !.data = FALSE, !.prompts = FALSE,
                                !.diffs = FALSE]
          /\ UNCHANGED wt
       \/ /\ \E v \in FileVals : v # wt.file /\ wt' = [wt EXCEPT !.file = v]
          /\ UNCHANGED dir
    /\ UNCHANGED <<journalVars, prompt_state, commits, head, index,
                   refs_steps, refs_checkpoints, appended, pc, local, cli,
                   inodes, flock, temp_index>>

\* A directory with a source file, with or without a repository and with
\* or without the data directories; no commit and no journal yet.
InitRoot ==
    /\ timeline = <<>>
    /\ timeline_exists = FALSE
    /\ prompt_state = FALSE
    /\ commits = <<>>
    /\ head = NoSha
    /\ index = EmptyTree
    /\ wt = [file |-> 1, gitignore |-> FALSE]
    /\ refs_steps = [i \in StepIds |-> NoSha]
    /\ refs_checkpoints = [i \in StepIds |-> NoSha]
    /\ appended = {}
    /\ outcome = NoOutcome
    /\ nops = 0
    /\ pc = [p \in Procs |-> "idle"]
    /\ local = [p \in Procs |-> NoLocal]
    /\ cli = CliClean
    /\ inodes = <<>>
    /\ dir \in RootDirs
    /\ flock = <<>>
    /\ temp_index = NoIndex

NextInit == construct \/ user_command

SpecInit == InitRoot /\ [][NextInit]_vars

\* C27: constructing Rewindo on a directory that is not a git repository
\* fails with an error at construction and leaves that directory as it
\* was: no data directory or side-file directory is created by the failed
\* construction.
C27_FailedConstructionLeavesDirectory ==
    (Called("__init__") /\ ~Before.git) =>
        /\ ~outcome.ok
        /\ dir = Before

(***************************************************************************)
(* The id of a new entry, on any journal content (SpecJournal).            *)
(***************************************************************************)
\* The last call appended an entry: append_entry, or the Stop hook when it
\* made a checkpoint; outcome.val is the id it assigned.
Assigned ==
    Called("append_entry") \/ (Called("log_stop") /\ outcome.val # 0)

\* The ids of the parseable entries of a journal.
ParseableIds(lines) == {lines[i].id : i \in {k \in 1..Len(lines) : lines[k].valid}}

\* C28: for any journal content (id gaps, entries out of id order,
\* unparseable lines), the id assigned by append_entry and by the Stop hook
\* is 1 + the maximum id among the parseable entries, and 1 when there is
\* none; it is never less than or equal to an id already present and it is
\* not the line count + 1 (it follows the maximum where the two differ).
C28_NextIdIsMaxPlusOne ==
    Assigned =>
        LET ids == ParseableIds(Before)
        IN /\ ids = {} => outcome.val = 1
           /\ ids # {} => \E m \in ids : /\ \A i \in ids : i <= m
                                         /\ outcome.val = m + 1
           /\ \A i \in ids : outcome.val > i
           /\ Len(timeline) = Len(Before) + 1
           /\ timeline[Len(timeline)].id = outcome.val
           /\ SubSeq(timeline, 1, Len(Before)) = Before

\* The Stop hook has appended entry 5 to a journal of three lines: entry 4,
\* an unparseable line and entry 2 (a gap, ids out of order, and a line
\* count + 1 of 4).
C28_Witness ==
    /\ Called("log_stop")
    /\ outcome.val = 5
    /\ Len(Before) = 3
    /\ Before[1].valid /\ Before[1].id = 4
    /\ ~Before[2].valid
    /\ Before[3].valid /\ Before[3].id = 2
    /\ timeline[4].id = 5

(***************************************************************************)
(* add_label on any journal content (SpecJournal).                         *)
(***************************************************************************)
\* The stored record b with its labels replaced.
WithLabels(b, labels) == [b EXCEPT !.labels = labels]

\* C29: add_label(id, label) changes only the labels field of the entry
\* with that id: every other field of that entry and every other journal
\* entry keep their values and their order; add_label on an id that is not
\* in the journal returns False and leaves the journal untouched.
C29_AddLabelChangesOnlyLabels ==
    Called("add_label") =>
        /\ Len(timeline) = Len(Before)
        /\ \A i \in 1..Len(Before) :
               IF Before[i].valid /\ Before[i].id = Arg[1]
               THEN timeline[i] = WithLabels(Before[i], timeline[i].labels)
               ELSE timeline[i] = Before[i]
        /\ ~HasEntry(Before, TRUE, Arg[1]) => ~outcome.ok /\ timeline = Before

\* add_label(2, "good") has returned True on a journal of three entries
\* with entry 2 in the middle, between a legacy entry and a current one.
C29_Witness ==
    /\ Called("add_label") /\ outcome.ok
    /\ Arg = <<2, "good">>
    /\ Len(Before) = 3
    /\ Before[1] = LegacyEntry(4)
    /\ Before[2] = NewEntry(2, "user", NoSha, NoSha)
    /\ Before[3] = NewEntry(1, "user", NoSha, NoSha)
    /\ timeline = [Before EXCEPT ![2] = WithLabels(Before[2], <<"good">>)]

(***************************************************************************)
(* Legacy entries: normalised when read, never rewritten (SpecJournal).    *)
(***************************************************************************)
\* The stored record has no "actor" and no "parent_sha" key.
IsLegacy(e) == e.valid /\ e.actor = NoActor /\ "parent_sha" \notin DOMAIN e

\* The first stored record with that id, which get_entry reads.
Stored(lines, entry_id) == lines[Min(Matching(lines, entry_id))]

\* The summaries of a result that carry actor = assistant.
AssistantSummaries(result) ==
    {k \in 1..Len(result) : result[k].actor = "assistant"}

LegacyLines(lines) == {i \in 1..Len(lines) : IsLegacy(lines[i])}

\* get_entry returns a legacy entry with actor = assistant and
\* parent_sha = None.
LegacyReadByGetEntry ==
    (/\ Called("get_entry")
     /\ HasEntry(timeline, timeline_exists, Arg)
     /\ IsLegacy(Stored(timeline, Arg))) =>
        /\ Result.actor = "assistant"
        /\ "parent_sha" \in DOMAIN Result /\ Result.parent_sha = NoSha

\* list_entries returns a legacy entry with actor = assistant, also under
\* the actor=assistant filter (the user entries are the only others here,
\* so when the limit covers the journal the assistant summaries are the
\* legacy entries, one for one).
LegacyReadByListEntries ==
    Called("list_entries") =>
        /\ \A k \in 1..Len(Result) : Result[k].actor \in Actors
        /\ Len(timeline) <= Arg[1] =>
               Cardinality(AssistantSummaries(Result)) =
                   Cardinality(LegacyLines(timeline))
        /\ Arg[2] = "assistant" =>
               AssistantSummaries(Result) = 1..Len(Result)

\* No step rewrites a stored legacy record with the defaults: it stays at
\* its place with no actor and no parent_sha.
LegacyNeverRewritten ==
    [][\A i \in LegacyLines(timeline) :
           i <= Len(timeline') /\ IsLegacy(timeline'[i])]_vars

\* C30 as stated: a legacy entry (stored without actor and parent_sha) is
\* returned by get_entry and list_entries with actor = assistant and
\* parent_sha = None (and is matched by an actor=assistant filter), but the
\* stored record is never rewritten with those defaults: after any
\* sequence of get_entry, list_entries and add_label calls the stored
\* legacy record still has no actor and no parent_sha field.
C30_LegacyReadWithDefaults ==
    /\ [](/\ LegacyReadByGetEntry
          /\ LegacyReadByListEntries
          /\ Called("list_entries") =>
                 \A k \in AssistantSummaries(Result) :
                     /\ "parent_sha" \in DOMAIN Result[k]
                     /\ Result[k].parent_sha = NoSha)
    /\ LegacyNeverRewritten

\* C30 (amended): get_entry returns a legacy entry with actor = assistant
\* and parent_sha = None; list_entries returns its summary with
\* actor = assistant (a summary has no parent_sha field) and matches it
\* under an actor=assistant filter; and the stored legacy record is never
\* rewritten with those defaults by any sequence of calls.
C30_LegacyNormalizedInMemoryOnly ==
    /\ [](/\ LegacyReadByGetEntry
          /\ LegacyReadByListEntries
          /\ Called("list_entries") =>
                 \A k \in 1..Len(Result) :
                     "parent_sha" \notin DOMAIN Result[k])
    /\ LegacyNeverRewritten

\* get_entry(1) has returned the legacy entry 1 with actor = assistant,
\* parent_sha = None and the label an earlier add_label call gave it, and
\* the stored record still has neither key.
C30_Witness ==
    /\ Called("get_entry") /\ Arg = 1
    /\ HasEntry(timeline, timeline_exists, 1)
    /\ IsLegacy(Stored(timeline, 1))
    /\ Stored(timeline, 1).labels = <<"good">>
    /\ Result.actor = "assistant" /\ Result.parent_sha = NoSha
    /\ Result.labels = <<"good">>

(***************************************************************************)
(* revert_to and undo with references in both namespaces: a repository     *)
(* with two commits, entries with and without a recorded checkpoint_sha,   *)
(* and references made by store_ref (refs/rewindo/steps) and by the Stop   *)
(* hook's git update-ref (refs/rewindo/checkpoints).                       *)
(***************************************************************************)
\* Commands per behaviour of SpecRefs.
MaxRefOps == 4
RefTick == nops < MaxRefOps /\ nops' = nops + 1

\* git update-ref refs/rewindo/checkpoints/<id> <sha>
store_legacy_ref(id, sha) ==
    /\ refs_checkpoints' = [refs_checkpoints EXCEPT ![id] = sha]
    /\ outcome' = Returned("update-ref", 0)
    /\ UNCHANGED <<journalVars, prompt_state, commits, head, index, wt,
                   refs_steps, appended>>

\* Two commits of the source file, a clean working tree at the second, no
\* journal and no reference.
InitRefs ==
    /\ timeline = <<>>
    /\ timeline_exists = FALSE
    /\ prompt_state = FALSE
    /\ commits = <<[tree |-> MkTree(1, FALSE, FALSE, <<>>), parent |-> NoSha],
                   [tree |-> MkTree(2, FALSE, FALSE, <<>>), parent |-> 1]>>
    /\ head = 2
    /\ index = MkTree(2, FALSE, FALSE, <<>>)
    /\ wt = [file |-> 2, gitignore |-> FALSE]
    /\ refs_steps = [i \in StepIds |-> NoSha]
    /\ refs_checkpoints = [i \in StepIds |-> NoSha]
    /\ appended = {}
    /\ outcome = NoOutcome
    /\ nops = 0
    /\ pc = [p \in Procs |-> "idle"]
    /\ local = [p \in Procs |-> NoLocal]
    /\ cli = CliClean
    /\ InitFs

\* A command of SpecRefs run from start to end.
RefStep == RefTick /\ NoStateDir /\ UNCHANGED <<pc, local, cli>>

\* revert_to(entry_id), with the argument kept in the caller's local
\* variables.
revert_call(entry_id) ==
    /\ RefTick
    /\ revert_to(entry_id)
    /\ local' = [local EXCEPT ![1] =
                    [op |-> "revert_to", arg |-> entry_id,
                     before |-> timeline, result |-> NotFound]]
    /\ UNCHANGED <<pc, cli, fsVars>>

NextRefs ==
    \/ RefStep /\ \E v \in FileVals : UserEdit(v)
    \/ RefStep /\ \E s \in {NoSha, 1, 2} : append_entry("assistant", s, NoSha)
    \/ RefStep /\ \E i \in SomeId, s \in 1..Len(commits) : store_ref(i, s)
    \/ RefStep /\ \E i \in SomeId, s \in 1..Len(commits) : store_legacy_ref(i, s)
    \/ \E i \in SomeId : revert_call(i)
    \/ RefStep /\ undo

SpecRefs == InitRefs /\ [][NextRefs]_vars

\* The step is a call of revert_to; RevertArg is the id it returned for.
RevertReturned == outcome'.op = "revert_to" /\ outcome'.ok /\ nops' = nops + 1
RevertRaised == outcome'.op = "revert_to" /\ ~outcome'.ok /\ nops' = nops + 1

\* C31: revert_to resolves the checkpoint from the entry's recorded
\* checkpoint_sha when it is present; otherwise from the reference in the
\* current namespace (refs/rewindo/steps/<id>), and from the legacy
\* namespace (refs/rewindo/checkpoints/<id>) only if that reference is
\* missing; when both references exist and differ, the current one is the
\* one reset to.
C31_RevertPrefersCurrentNamespace ==
    [][RevertReturned =>
           LET id == outcome'.val
               e == get_entry(timeline, id)
           IN head' = IF e.checkpoint_sha # NoSha THEN e.checkpoint_sha
                      ELSE IF refs_steps[id] # NoSha THEN refs_steps[id]
                      ELSE refs_checkpoints[id]]_vars

\* The entry cannot be resolved: the journal has no entry with that id,
\* or the entry has no checkpoint_sha and no reference in either namespace.
Unresolvable(id) ==
    \/ ~HasEntry(timeline, timeline_exists, id)
    \/ /\ get_entry(timeline, id).checkpoint_sha = NoSha
       /\ refs_steps[id] = NoSha
       /\ refs_checkpoints[id] = NoSha

\* C32: revert_to on an id with no journal entry, or on an entry that has
\* no checkpoint_sha and no reference in either namespace, raises an error
\* before any reset is attempted: the working tree, the index and the
\* journal are all unchanged.
C32_UnresolvableRevertRaises ==
    [][(/\ outcome'.op = "revert_to" /\ nops' = nops + 1
        /\ Unresolvable(local'[1].arg)) =>
           /\ ~outcome'.ok
           /\ UNCHANGED <<wt, index, head, commits, timeline,
                          timeline_exists>>]_vars

\* revert_to has raised for an entry with no checkpoint_sha and no
\* reference, while the working tree held an edit a reset would have
\* discarded and another entry of the journal could be resolved.
C32_Witness ==
    /\ outcome = Raised("revert_to")
    /\ HasEntry(timeline, timeline_exists, Arg)
    /\ Unresolvable(Arg)
    /\ wt.file # commits[head].tree.file
    /\ \E i \in 1..MaxId(timeline) : ~Unresolvable(i)

\* C33: undo() leaves the journal's contents unchanged across its hard
\* reset, including when the journal file is tracked by version control:
\* undo insulates the journal from the reset the same way revert_to does.
C33_UndoKeepsJournal ==
    [][UndoReturned =>
           timeline' = timeline /\ timeline_exists' = timeline_exists]_vars

\* C34: _acquire_lock(timeout) keeps retrying its non-blocking acquisition
\* until the lock is obtained or the timeout has elapsed: while another
\* invocation holds the lock it does not report failure before the
\* timeout, it succeeds if the holder releases within the timeout, and a
\* reported failure mutates no state. The few steps of a behaviour of
\* SpecLock all fall within the timeout (5 seconds by default), so no call
\* reports failure in it.
C34_AcquireRetriesUntilTimeout ==
    outcome.op = "_acquire_lock" => outcome.ok

(***************************************************************************)
(* create_snapshot when a git command of its sequence fails.               *)
(***************************************************************************)
NextSnapFail ==
    \/ BetweenSnapshots /\ \E v \in FileVals : UserEdit(v)
    \/ BetweenSnapshots /\ UserStage
    \/ BetweenSnapshots /\ UserCommit
    \/ \E parent_sha \in {NoSha, head}, cf \in ChangedFilesArgs :
           snapshot_detect(parent_sha, cf)
    \/ \E f \in StageFaults : snapshot_stage(f)
    \/ \E f \in CommitFaults : snapshot_commit(f)

SpecSnapFail == Init /\ [][NextSnapFail]_vars

\* create_snapshot has returned (or has not been called yet).
SnapshotIdle == pc[1] = "idle"

C36_FailedCommandNoCommit ==
    [][(SnapshotStep /\ pc[1] # "idle"
        /\ local'[1].fault \in {"read-tree", "add", "rm", "write-tree",
                                "commit-tree"}) =>
           /\ pc'[1] = "idle"
           /\ outcome' = Raised("create_snapshot")
           /\ commits' = commits]_vars

(***************************************************************************)
(* WorkingTreeDetector.get_changed_files as a parser of the output of      *)
(* git status --porcelain -z.  A path and a field of the output are        *)
(* tuples of characters.                                                   *)
(***************************************************************************)
MaxRecords == 2

StatusPaths ==
    {<<"a", ".", "p", "y">>, <<"R", "E", "A", "D", "M", "E">>, <<"g", "o">>}

\* The two-character codes XY git prints; a rename (R) or copy (C) record
\* spans two path fields.
StatusCodes ==
    {<<" ", "M">>, <<"M", " ">>, <<"M", "M">>, <<"A", " ">>, <<" ", "D">>,
     <<"D", " ">>, <<"?", "?">>, <<"R", " ">>, <<"R", "M">>, <<"C", " ">>}
TwoPaths(rec) == rec.xy[1] \in {"R", "C"}
IsRename(rec) == rec.xy[1] = "R"

\* The records of a status report: path is the path of the record (the new
\* path of a rename or copy), orig the path it was renamed or copied from.
StatusRecords ==
    {r \in [xy : StatusCodes, path : StatusPaths, orig : StatusPaths] :
        IF TwoPaths(r) THEN r.orig # r.path ELSE r.orig = r.path}
StatusReports ==
    UNION {[1..n -> StatusRecords] : n \in 0..MaxRecords}

\* What git writes for a record with -z: "XY <path>" and a NUL, and for a
\* rename or copy the path it came from and a NUL after that.
RecordFields(rec) ==
    <<rec.xy \o <<" ">> \o rec.path>>
        \o (IF TwoPaths(rec) THEN <<rec.orig>> ELSE <<>>)

RECURSIVE ReportFields(_)
ReportFields(report) ==
    IF report = <<>> THEN <<>>
    ELSE RecordFields(Head(report)) \o ReportFields(Tail(report))

\* output.split('\0'): the fields and the empty string after the last NUL.
SplitNul(report) ==
    IF report = <<>> THEN <<>> ELSE ReportFields(report) \o << <<>> >>

\* part[:2].strip()
StripCode(part) ==
    LET x == part[1]
        y == part[2]
    IN IF x = " " /\ y = " " THEN <<>>
       ELSE IF x = " " THEN <<y>>
       ELSE IF y = " " THEN <<x>>
       ELSE <<x, y>>

\* The status string of a FileChange.
StatusString(code) ==
    IF code = <<>> THEN ""
    ELSE IF Len(code) = 1 THEN code[1]
    ELSE code[1] \o code[2]

FileChange(path, status) == [path |-> path, status |-> status]

\* The path field a record starting with R takes as the new path.
RenamePath(parts, i, part) == parts[i + 1]

\* The loop of get_changed_files over the fields, from field i on.
RECURSIVE ParseStatus(_, _)
ParseStatus(parts, i) ==
    IF i > Len(parts) THEN <<>>
    ELSE LET part == parts[i]
         IN IF part = <<>> \/ Len(part) < 3 THEN ParseStatus(parts, i + 1)
            ELSE LET code == StripCode(part)
                     path == SubSeq(part, 4, Len(part))
                 IN IF code # <<>> /\ code[1] = "R" /\ i + 1 <= Len(parts)
                    THEN <<FileChange(RenamePath(parts, i, part), "R")>>
                             \o ParseStatus(parts, i + 2)
                    ELSE IF code = <<>> THEN ParseStatus(parts, i + 1)
                    ELSE <<FileChange(path, StatusString(code))>>
                             \o ParseStatus(parts, i + 1)

InitDetect ==
    /\ timeline = <<>>
    /\ timeline_exists = FALSE
    /\ prompt_state = FALSE
    /\ InitGit
    /\ appended = {}
    /\ outcome = NoOutcome
    /\ nops = 0
    /\ pc = [p \in Procs |-> "idle"]
    /\ \E report \in StatusReports :
           local = [p \in Procs |->
                       IF p = 1 THEN [op |-> "git status", arg |-> report,
                                      before |-> <<>>, result |-> <<>>]
                       ELSE NoLocal]
    /\ cli = CliClean
    /\ inodes = <<>>
    /\ dir = DirWithPrompt(0)
    /\ flock = <<>>
    /\ temp_index = NoIndex

\* get_changed_files on the status report git printed.
get_changed_files_call ==
    /\ nops = 0
    /\ nops' = 1
    /\ outcome' = Returned("get_changed_files", 0)
    /\ local' = [local EXCEPT ![1].op = "get_changed_files",
                              ![1].result =
                                  ParseStatus(SplitNul(local[1].arg), 1)]
    /\ UNCHANGED <<journalVars, prompt_state, gitVars, appended, pc, cli,
                   fsVars>>

NextDetect == get_changed_files_call

SpecDetect == InitDetect /\ [][NextDetect]_vars

\* C37: get_changed_files turns every record of the status report into
\* exactly one FileChange: a rename record, which spans two path fields,
\* becomes a single entry with status R carrying the rename's new path, and
\* every other record, whatever its two-character status code, is
\* classified as exactly one of M (modified), A (added), D (deleted) or ??
\* (untracked).
C37_OneFileChangePerRecord ==
    Called("get_changed_files") =>
        /\ Len(Result) = Len(Arg)
        /\ \A i \in 1..Len(Arg) :
               IF IsRename(Arg[i])
               THEN Result[i] = FileChange(Arg[i].path, "R")
               ELSE Result[i].status \in {"M", "A", "D", "??"}

(***************************************************************************)
(* Rewindo.get_diff on the stored patch diffs/00001.patch.  A line of the  *)
(* patch and a path are tuples of characters.                              *)
(***************************************************************************)
MaxDiffLines == 3

\* x, yx (whose path contains the path x) and z.
DiffPaths == {<<"x">>, <<"y", "x">>, <<"z">>}
NoFile == <<>>

\* "diff --git a/<path> b/<path>", the header line of a file's section.
HeaderLine(path) ==
    <<"d", "i", "f", "f", " ", "-", "-", "g", "i", "t", " ", "a", "/">>
        \o path \o <<" ", "b", "/">> \o path
ContentLine(path, n) == <<"+">> \o path \o <<n>>
Section(path, n) ==
    <<HeaderLine(path)>> \o [i \in 1..n |-> ContentLine(path, i)]

\* The patches git diff writes: one section for each changed file.
DiffFiles ==
    {Section(p, n) : p \in DiffPaths, n \in 1..2}
        \cup UNION {{Section(p, n) \o Section(q, m) :
                         q \in DiffPaths \ {p}, n \in 1..2, m \in 1..2} :
                     p \in DiffPaths}

\* The directory entry of diffs/00001.patch (0: no such file).
DirWithDiff(ino) ==
    [state |-> 0, tmp |-> 0, lock |-> 0, prompt_1 |-> 0, diff_1 |-> ino]

InitDiff ==
    /\ timeline = <<>>
    /\ timeline_exists = FALSE
    /\ prompt_state = FALSE
    /\ InitGit
    /\ appended = {}
    /\ outcome = NoOutcome
    /\ nops = 0
    /\ pc = [p \in Procs |-> "idle"]
    /\ local = [p \in Procs |-> NoLocal]
    /\ cli = CliClean
    /\ \/ inodes = <<>> /\ dir = DirWithDiff(0)
       \/ inodes \in {<<d>> : d \in DiffFiles} /\ dir = DirWithDiff(1)
    /\ flock = <<>>
    /\ temp_index = NoIndex

\* line.startswith("diff --git")
IsDiffHeader(line) ==
    Len(line) >= 10 /\ SubSeq(line, 1, 10) = SubSeq(HeaderLine(<<>>), 1, 10)

\* file_path in line
HeaderNames(file_path, line) == IsSubstring(file_path, line)

\* Rewindo._filter_diff_by_file from line i on; in_target_file tells
\* whether the last header seen named the file.
RECURSIVE FilterFrom(_, _, _, _)
FilterFrom(diff_lines, file_path, i, in_target_file) ==
    IF i > Len(diff_lines) THEN <<>>
    ELSE LET line == diff_lines[i]
         IN IF IsDiffHeader(line)
            THEN IF HeaderNames(file_path, line)
                 THEN <<line>> \o FilterFrom(diff_lines, file_path, i + 1,
                                             TRUE)
                 ELSE FilterFrom(diff_lines, file_path, i + 1, FALSE)
            ELSE IF in_target_file
                 THEN <<line>> \o FilterFrom(diff_lines, file_path, i + 1,
                                             TRUE)
                 ELSE FilterFrom(diff_lines, file_path, i + 1, FALSE)

filter_diff_by_file(diff_lines, file_path) ==
    FilterFrom(diff_lines, file_path, 1, FALSE)

\* Rewindo.get_diff; found = FALSE is the return value None.
get_diff(entry_id, max_lines, offset_lines, file_path) ==
    IF ~(entry_id = 1 /\ dir.diff_1 # 0) THEN NoPrompt
    ELSE LET lines == inodes[dir.diff_1]
             kept == IF file_path # NoFile
                     THEN filter_diff_by_file(lines, file_path)
                     ELSE lines
         IN [found |-> TRUE,
             text |-> PySlice(kept, offset_lines,
                              SliceEnd(offset_lines, max_lines))]

get_diff_call(entry_id, max_lines, offset_lines, file_path) ==
    ReaderCall("get_diff", <<entry_id, max_lines, offset_lines, file_path>>,
               get_diff(entry_id, max_lines, offset_lines, file_path))

NextDiff ==
    \E i \in {1, 2}, n \in 0..MaxDiffLines, o \in 0..2,
       f \in DiffPaths \cup {NoFile} :
        get_diff_call(i, n, o, f)

SpecDiff == InitDiff /\ [][NextDiff]_vars

\* The lines of the section of a file in a patch.
OwnLines(path) == {HeaderLine(path)} \cup {ContentLine(path, n) : n \in 1..2}

\* C38: get_diff with a file filter returns only lines of the diff section
\* whose header names exactly the requested file, and no line of any other
\* file's section (including files whose path merely contains the
\* requested path); the line window [offset_lines, offset_lines +
\* max_lines) is applied to the filtered lines, so at most max_lines lines
\* are returned.
C38_DiffFilterExactFile ==
    (Called("get_diff") /\ Arg[4] # NoFile /\ Result.found) =>
        /\ \A i \in 1..Len(Result.text) : Result.text[i] \in OwnLines(Arg[4])
        /\ Len(Result.text) <= Arg[2]

(***************************************************************************)
(* hooks/log_stop.py main step by step, one run at a time: each git        *)
(* command and each file operation of a run is a step, the environment     *)
(* decides whether it fails, and the run can be killed between two steps.  *)
(***************************************************************************)
MaxHookOps == 5

HookTick == nops < MaxHookOps /\ nops' = nops + 1
HookIdle == pc[1] = "idle"
HookStep == NoStateDir /\ UNCHANGED <<pc, local, cli>>

\* The journals the hook finds: none, an entry of append_entry, a line that
\* does not parse.
HookJournals ==
    {<<>>, <<NewEntry(1, "user", NoSha, NoSha)>>,
     <<NewEntry(1, "user", NoSha, NoSha), BadLine>>}

InitHook ==
    /\ timeline \in HookJournals
    /\ timeline_exists = (timeline # <<>>)
    /\ prompt_state \in BOOLEAN
    /\ InitGit
    /\ appended = {}
    /\ outcome = NoOutcome
    /\ nops = 0
    /\ pc = [p \in Procs |-> "idle"]
    /\ local = [p \in Procs |-> NoLocal]
    /\ cli = CliClean
    /\ InitFs

unlink_state_kept(state) == state

\* state_file.unlink(missing_ok=True)
unlink_state(state) == FALSE

AfterUpdateRef_append(returncode) == "stop_append"

\* create_git_checkpoint returns None when update-ref fails, and main then
\* exits; otherwise main goes on to the append.
AfterUpdateRef(returncode) ==
    IF returncode # 0 THEN "idle" ELSE "stop_append"

\* hooks/log_prompt.py main: the prompt state is written; the entries
\* appended for the prompt captured before are forgotten.
log_prompt_call ==
    /\ HookIdle
    /\ HookTick
    /\ prompt_state' = TRUE
    /\ appended' = {}
    /\ outcome' = Returned("log_prompt", 0)
    /\ UNCHANGED <<journalVars, gitVars>>
    /\ HookStep

\* main up to entry_id = get_next_entry_id(timeline_path): .gitignore, the
\* prompt state (unreadable: open or json.load raises), has_changes.
stop_begin(unreadable) ==
    LET w1 == HookWt(wt)
        idx1 == HookIndex(index, wt)
    IN /\ HookIdle
       /\ HookTick
       /\ wt' = w1
       /\ index' = idx1
       /\ IF ~prompt_state
          THEN /\ outcome' = Returned("log_stop", 0)
               /\ UNCHANGED <<prompt_state, pc, local>>
          ELSE IF unreadable
          THEN /\ prompt_state' = unlink_state(prompt_state)
               /\ outcome' = Raised("log_stop")
               /\ UNCHANGED <<pc, local>>
          ELSE IF ~has_changes(idx1, commits[head].tree, w1,
                               timeline, timeline_exists)
          THEN /\ prompt_state' = unlink_state(prompt_state)
               /\ outcome' = Returned("log_stop", 0)
               /\ UNCHANGED <<pc, local>>
          ELSE /\ Goto(1, "stop_checkpoint",
                       [NoLocal EXCEPT !.entry_id =
                            get_next_entry_id(timeline, timeline_exists)])
               /\ outcome' = NoOutcome
               /\ UNCHANGED prompt_state
       /\ UNCHANGED <<journalVars, commits, head, refs_steps,
                      refs_checkpoints, appended, cli>>
       /\ NoStateDir

\* create_git_checkpoint: git add -A, write-tree, commit-tree -p HEAD; when
\* write-tree or commit-tree fails main removes the prompt state and exits.
stop_checkpoint(failed) ==
    LET staged == GitAddAll(index, wt, timeline, timeline_exists)
    IN /\ pc[1] = "stop_checkpoint"
       /\ index' = staged
       /\ IF failed
          THEN /\ prompt_state' = unlink_state(prompt_state)
               /\ outcome' = Raised("log_stop")
               /\ Goto(1, "idle", NoLocal)
               /\ UNCHANGED commits
          ELSE /\ commits' = Append(commits,
                                    [tree |-> staged, parent |-> head])
               /\ Goto(1, "stop_update_ref",
                       [local[1] EXCEPT !.sha = Len(commits) + 1])
               /\ UNCHANGED <<prompt_state, outcome>>
       /\ UNCHANGED <<journalVars, head, wt, refs_steps, refs_checkpoints,
                      appended, nops, cli>>
       /\ NoStateDir

\* create_git_checkpoint: git update-ref refs/rewindo/checkpoints/<id>.
stop_update_ref(returncode) ==
    /\ pc[1] = "stop_update_ref"
    /\ refs_checkpoints' =
           IF returncode = 0
           THEN [refs_checkpoints EXCEPT ![local[1].entry_id] = local[1].sha]
           ELSE refs_checkpoints
    /\ IF AfterUpdateRef(returncode) = "idle"
       THEN /\ prompt_state' = unlink_state(prompt_state)
            /\ outcome' = Raised("log_stop")
            /\ Goto(1, "idle", NoLocal)
       ELSE /\ pc' = [pc EXCEPT ![1] = AfterUpdateRef(returncode)]
            /\ UNCHANGED <<prompt_state, outcome, local>>
    /\ UNCHANGED <<journalVars, commits, head, index, wt, refs_steps,
                   appended, nops, cli>>
    /\ NoStateDir

\* main: the entry is appended to the journal; an exception of the append
\* is printed and the run goes on.
stop_append(failed) ==
    /\ pc[1] = "stop_append"
    /\ IF failed
       THEN UNCHANGED <<journalVars, appended>>
       ELSE /\ timeline' = Append(timeline,
                                  HookEntry(local[1].entry_id, local[1].sha))
            /\ timeline_exists' = TRUE
            /\ appended' = appended \cup {local[1].entry_id}
    /\ pc' = [pc EXCEPT ![1] = "stop_unlink"]
    /\ UNCHANGED <<prompt_state, gitVars, outcome, nops, local, cli>>
    /\ NoStateDir

\* main: the prompt state is removed and the run exits.
stop_unlink ==
    /\ pc[1] = "stop_unlink"
    /\ prompt_state' = unlink_state(prompt_state)
    /\ outcome' = Returned("log_stop", local[1].entry_id)
    /\ Goto(1, "idle", NoLocal)
    /\ UNCHANGED <<journalVars, gitVars, appended, nops, cli>>
    /\ NoStateDir

\* The run is killed between two steps.
stop_killed ==
    /\ ~HookIdle
    /\ outcome' = Raised("killed")
    /\ Goto(1, "idle", NoLocal)
    /\ UNCHANGED <<journalVars, prompt_state, gitVars, appended, nops, cli>>
    /\ NoStateDir

NextHook ==
    \/ HookIdle /\ HookTick /\ HookStep /\ \E v \in {1, 2} : UserEdit(v)
    \/ log_prompt_call
    \/ \E unreadable \in BOOLEAN : stop_begin(unreadable)
    \/ \E failed \in BOOLEAN : stop_checkpoint(failed)
    \/ \E returncode \in {0, 1} : stop_update_ref(returncode)
    \/ \E failed \in BOOLEAN : stop_append(failed)
    \/ stop_unlink

SpecHook == InitHook /\ [][NextHook]_vars

NextHookKill == NextHook \/ stop_killed

SpecHookKill == InitHook /\ [][NextHookKill]_vars

\* A run of the Stop hook exits in this step.
StopExits == pc'[1] = "idle" /\ outcome'.op = "log_stop" /\ nops' > 0
                 /\ (pc[1] # "idle" \/ nops' # nops)

\* C39: each captured prompt yields at most one journal entry: every
\* Stop-hook run that finds prompt_state.json removes it before exiting
\* (checkpoint created, no changes, unreadable state, or checkpoint
\* creation failed), so a second Stop event with no intervening
\* UserPromptSubmit appends nothing, and a Stop event with no prompt state
\* appends nothing.
C39_OneEntryPerPrompt ==
    /\ [](Cardinality(appended) <= 1)
    /\ [][/\ (StopExits /\ prompt_state) => ~prompt_state'
          /\ timeline' # timeline => prompt_state]_vars

\* A second Stop event with no prompt submitted since the first has run
\* after the first appended its entry, and the journal holds that entry
\* only.
C39_Witness ==
    /\ HookIdle
    /\ outcome = Returned("log_stop", 0)
    /\ ~prompt_state
    /\ Cardinality(appended) = 1
    /\ \E i \in 1..Len(timeline) : timeline[i].actor = NoActor

\* The entries the Stop hook has written.
HookWritten(i) == timeline[i].valid /\ timeline[i].actor = NoActor

\* C40: in sequential Stop-hook runs the journal entry is appended only
\* after the checkpoint commit and its reference
\* refs/rewindo/checkpoints/<id> were created successfully, with the same
\* id and commit; so at every instant, even if the hook is killed between
\* steps, every entry the hook has written has a reference with its id
\* pointing at its checkpoint_sha.
C40_EntryHasReference ==
    \A i \in 1..Len(timeline) :
        HookWritten(i) =>
            /\ timeline[i].checkpoint_sha # NoSha
            /\ timeline[i].checkpoint_sha \in 1..Len(commits)
            /\ refs_checkpoints[timeline[i].id] = timeline[i].checkpoint_sha

\* A run has written an entry with its reference, and a run that was
\* killed or whose append failed has left a reference without an entry.
C40_Witness ==
    /\ HookIdle
    /\ \E i \in 1..Len(timeline) : HookWritten(i)
    /\ \E id \in StepIds :
           /\ refs_checkpoints[id] # NoSha
           /\ \A i \in 1..Len(timeline) : timeline[i].id # id
====
